---- MODULE Spec2Model ----
(* Model of the realtime transcription pipeline of the transcriber package:  *)
(* the run loop of TranscriptionSession (connect, close handling, reconnect),*)
(* the inbound event router (on_message), the utterance tracker and timeout  *)
(* ticker of AudioBuffer, and the ordered output queue of TranscriptManager. *)
(*                                                                           *)
(* Wall-clock time is not counted outside the specifications with a clock.   *)
(* Whether timeout_seconds have passed since an utterance's stopped_at is    *)
(* open every time the ticker looks at it; a recent transcript carries the   *)
(* flag "old" (now - stamp > max_age_seconds), which the passing of time     *)
(* turns on, oldest first.  The capture specifications read a clock (now)    *)
(* for the timestamps of the audio ring, and SpecTimeout reads it for        *)
(* stopped_at and the ticker's comparison, in readings of half a second.     *)
(*                                                                           *)
(* Specifications: Spec (events, ticker, ordered output), SpecLive (Spec     *)
(* with a running ticker), SpecConn (connection attempts and closes), SpecRe *)
(* (reconnect and reset), SpecText (filtering and typing), SpecDedup (the    *)
(* window of recent transcripts), SpecLock (the output lock, stepwise),      *)
(* SpecAudio (capture thread against on_open), SpecCapture (the same with a  *)
(* failing device), SpecSplit (the wtype splitter), SpecFilter (filter_text  *)
(* on partial texts), SpecFallback (the audio handed to the one-shot         *)
(* request), SpecWorker (a failing transcript file), SpecInject (a failing   *)
(* typing method), SpecReload (edits of the filter file), SpecRouter (the    *)
(* dispatch of completions and partial texts), SpecOpen (on_open and the     *)
(* messages sent, over a reconnect), SpecTimeout (the ticker with a clock)   *)
(* and SpecRace (the flush against the reconnect reset, stepwise).           *)
EXTENDS Integers, Sequences, FiniteSets, TLC

\* ------------------------------------------------------------------ bounds
MaxItems == 2        \* item ids the service uses per connection
MaxOpens == 2        \* connections that reach on_open
MaxFailures == 12    \* connection attempts in the connection-only specification
MaxRepeats == 1      \* redundant inbound events (re-sent or id-less ones)
MaxPartial == 6      \* characters accumulated in the partial buffer
MaxCalls == 9        \* completions in the duplicate-check specification
MaxClock == 4        \* readings of the clock in the capture specifications
MaxTime == 11        \* readings of the clock, two a second, in the timeout specification
MaxChunks == 3       \* frames appended to the audio ring
MaxEdits == 2        \* edits of the filter file
MaxAged == 1         \* window entries that grow old in that specification
MaxTimeouts == 2     \* timeouts counted for one utterance (the count stops there)

\* ------------------------------------------------------- program constants
max_reconnect_attempts == 10
reconnect_delay == 1
max_delay == 30
max_count == 7
threshold_x100 == 85
window_limit == 14
timeout_seconds_x2 == 5     \* timeout_seconds (2.5) in readings of the clock, two a second
window_keep == 7

NoId == <<0, 0>>
NoTime == 0          \* session_start_time is None; the clock starts at 1
IdsOf(g) == {g} \X (1..MaxItems)
Ids == UNION {IdsOf(g) : g \in 1..MaxOpens}

\* Raw transcripts the service or the fallback can deliver.  "#" stands for a
\* character outside \x20-\x7E.
RawTexts == { <<"a", " ">> }
NoText == <<>>
Deltas == { <<"a">> }
FilterDeltas == { <<"a">>, <<" ">>, <<"#">>, <<"u">>, <<"m">> }

\* Transcripts for the text path: one that the filter empties, one that it
\* changes, and two whose 14th distinct character is not alphanumeric
EmptiedText == <<" ", "#">>
ChangedText == <<"#", "b", " ", " ", "a">>
KeycodeText == <<"a", "b", "c", "d", "e", "f", "g", "h", "i", "j", "k", "l", "m", " ", "n">>
\* Transcripts for the duplicate check: two that differ in the last of seven
\* characters (ratio 12/14), and seven that have nothing in common
DedupTexts ==
  << <<"a", "b", "c", "d", "e", "f", "g">>, <<"a", "b", "c", "d", "e", "f", "h">>,
     <<"h">>, <<"i">>, <<"j">>, <<"k">>, <<"l">>, <<"m">>, <<"n">> >>

\* one letter and thirteen punctuation marks: the 14th distinct character is
\* a mark and no letter stands between the first character and it
PunctText == <<"a", "!", "\"", "$", "'", "(", ")", "*", "+", ",", "-", ".", "/", ":">>
Texts == RawTexts \cup {NoText, EmptiedText, ChangedText, KeycodeText}
SplitTexts == RawTexts \cup {KeycodeText, PunctText}

CloseCodes == {1000, 1006, 1011, 0}     \* 0 stands for a missing close code
ErrorCodes == {"session_expired", "rate_limit"}

VARIABLES
  \* TranscriptionSession
  running, should_reconnect, reconnect_attempts, transcript_buffer,
  main_pc, ws_state, delay,
  \* metrics
  session_expirations, api_errors, fallback_races, duplicates_filtered,
  \* TranscriptManager
  item_order, completed_transcripts, next_output_index, recent_transcripts,
  \* AudioBuffer
  item_speech_times, times, ab_running, session_start_time, ticker,
  \* history
  expired, consecutive, close_code, outputs, typed, opens, connects, repeats,
  \* capture thread, audio ring, wall clock, output lock
  now, audio_buffer, audio_pc, output_lock,
  \* environment: the transcript file can be appended to, the typing method,
  \* the filter file on disk
  log_writable, typer, filters_file,
  \* the compiled filter lists with _filters_mtime; the calls of type_text
  filters, injections,
  \* the timeouts recorded for each utterance; the messages sent on the
  \* connection; the dict that is AudioBuffer.item_speech_times and the dict
  \* TranscriptManager.item_speech_times refers to
  timeouts, sent, ab_dict, tm_dict

sessionVars == <<running, should_reconnect, reconnect_attempts, transcript_buffer,
                 main_pc, ws_state, delay>>
metricVars == <<session_expirations, api_errors, fallback_races, duplicates_filtered>>
tmVars == <<item_order, completed_transcripts, next_output_index, recent_transcripts>>
abVars == <<item_speech_times, times, ab_running, session_start_time, ticker>>
histVars == <<expired, consecutive, close_code, outputs, typed, opens, connects, repeats>>
extraVars == <<now, audio_buffer, audio_pc, output_lock>>
envVars == <<log_writable, typer, filters_file>>
outVars == <<filters, injections>>
sideVars == <<timeouts, sent, ab_dict, tm_dict>>
vars == <<sessionVars, metricVars, tmVars, abVars, histVars, extraVars, envVars, outVars,
          sideVars>>

Min(a, b) == IF a < b THEN a ELSE b
Max(a, b) == IF a > b THEN a ELSE b

RECURSIVE Pow2(_)
Pow2(n) == IF n <= 0 THEN 1 ELSE 2 * Pow2(n - 1)

\* ------------------------------------------------------------ filter_text
RemoveNonAscii(s) == SelectSeq(s, LAMBDA c : c # "#")

RECURSIVE CollapseSpaces(_)
CollapseSpaces(s) ==
  IF Len(s) <= 1 THEN s
  ELSE IF s[1] = " " /\ s[2] = " " THEN CollapseSpaces(Tail(s))
       ELSE <<s[1]>> \o CollapseSpaces(Tail(s))

RECURSIVE StripLeft(_)
StripLeft(s) == IF s # <<>> /\ s[1] = " " THEN StripLeft(Tail(s)) ELSE s

RECURSIVE StripRight(_)
StripRight(s) ==
  IF s # <<>> /\ s[Len(s)] = " " THEN StripRight(SubSeq(s, 1, Len(s) - 1)) ELSE s

Strip(s) == StripRight(StripLeft(s))

\* Of the hallucination patterns, the run of 5 or more identical letters; of
\* the filler patterns, u[hm]+.  A substitution goes over the text once, from
\* the left, and takes the longest match at each place.
IsLetter(c) == c \in {"a", "b", "c", "d", "e", "f", "g", "h", "i", "j", "k", "l", "m", "n", "u"}

RECURSIVE SameFrom(_, _, _)
SameFrom(s, c, i) == IF i <= Len(s) /\ s[i] = c THEN 1 + SameFrom(s, c, i + 1) ELSE 0

RECURSIVE RemoveLetterRuns(_)
RemoveLetterRuns(s) ==
  IF s = <<>> THEN s
  ELSE LET r == SameFrom(s, s[1], 1)
       IN  IF IsLetter(s[1]) /\ r >= 5
           THEN RemoveLetterRuns(SubSeq(s, r + 1, Len(s)))
           ELSE <<s[1]>> \o RemoveLetterRuns(Tail(s))

RECURSIVE HmFrom(_, _)
HmFrom(s, i) == IF i <= Len(s) /\ s[i] \in {"h", "m"} THEN 1 + HmFrom(s, i + 1) ELSE 0

RECURSIVE RemoveFillers(_)
RemoveFillers(s) ==
  IF s = <<>> THEN s
  ELSE LET r == HmFrom(s, 2)
       IN  IF s[1] = "u" /\ r >= 1
           THEN RemoveFillers(SubSeq(s, r + 2, Len(s)))
           ELSE <<s[1]>> \o RemoveFillers(Tail(s))

filter_text(text) ==
  IF text = <<>> THEN text
  ELSE Strip(CollapseSpaces(RemoveNonAscii(RemoveFillers(RemoveLetterRuns(text)))))

\* ------------------------------------------------ SequenceMatcher.ratio
\* length of the common run of a from i and b from j, inside a[..ahi], b[..bhi]
RECURSIVE RunLen(_, _, _, _, _, _)
RunLen(a, b, i, j, ahi, bhi) ==
  IF i > ahi \/ j > bhi \/ a[i] # b[j] THEN 0
  ELSE 1 + RunLen(a, b, i + 1, j + 1, ahi, bhi)

\* find_longest_match: longest block, earliest in a, then earliest in b
LongestMatch(a, b, alo, ahi, blo, bhi) ==
  LET cands == {<<i, j>> : i \in alo..ahi, j \in blo..bhi}
      len(c) == RunLen(a, b, c[1], c[2], ahi, bhi)
      best == CHOOSE c \in cands :
                \A d \in cands :
                  \/ len(c) > len(d)
                  \/ /\ len(c) = len(d)
                     /\ \/ c[1] < d[1]
                        \/ c[1] = d[1] /\ c[2] <= d[2]
  IN  [i |-> best[1], j |-> best[2], k |-> len(best)]

RECURSIVE MatchCount(_, _, _, _, _, _)
MatchCount(a, b, alo, ahi, blo, bhi) ==
  IF alo > ahi \/ blo > bhi THEN 0
  ELSE LET m == LongestMatch(a, b, alo, ahi, blo, bhi)
       IN  IF m.k = 0 THEN 0
           ELSE m.k + MatchCount(a, b, alo, m.i - 1, blo, m.j - 1)
                    + MatchCount(a, b, m.i + m.k, ahi, m.j + m.k, bhi)

\* ratio >= threshold, with ratio = 2*M/T (1.0 when both are empty)
RatioAtLeast(a, b) ==
  LET T == Len(a) + Len(b)
  IN  IF T = 0 THEN TRUE
      ELSE 200 * MatchCount(a, b, 1, Len(a), 1, Len(b)) >= threshold_x100 * T

\* ------------------------------------------------------ TranscriptManager
\* The operators below work on a record q of the fields a completion touches:
\* order, done (completed_transcripts), idx (next_output_index), recent,
\* times (the utterance objects), races and the history out.

\* variant: the scan does not stop after max_count entries
RECURSIVE fuzzy_scan_whole_window(_, _, _)
fuzzy_scan_whole_window(recent, text, i) ==
  IF i >= Len(recent) THEN FALSE
  ELSE LET e == recent[Len(recent) - i]
       IN  IF e.old THEN FALSE
           ELSE IF RatioAtLeast(text, e.text) THEN TRUE
           ELSE fuzzy_scan_whole_window(recent, text, i + 1)

\* variant: the scan does not look at the age of an entry
RECURSIVE fuzzy_scan_any_age(_, _, _)
fuzzy_scan_any_age(recent, text, i) ==
  IF i >= Len(recent) \/ i >= max_count THEN FALSE
  ELSE LET e == recent[Len(recent) - i]
       IN  IF RatioAtLeast(text, e.text) THEN TRUE
           ELSE fuzzy_scan_any_age(recent, text, i + 1)

\* reversed(recent_transcripts), entry number i (from 0)
RECURSIVE FuzzyScan(_, _, _)
FuzzyScan(recent, text, i) ==
  IF i >= Len(recent) \/ i >= max_count THEN FALSE
  ELSE LET e == recent[Len(recent) - i]
       IN  IF e.old THEN FALSE
           ELSE IF RatioAtLeast(text, e.text) THEN TRUE
           ELSE FuzzyScan(recent, text, i + 1)

_is_fuzzy_duplicate(recent, text) == FuzzyScan(recent, text, 0)

Trimmed(recent) ==
  IF Len(recent) > window_limit
  THEN SubSeq(recent, Len(recent) - window_keep + 1, Len(recent))
  ELSE recent

\* ------------------------------------------------------- typing backends
AlnumChars == {"a", "b", "c", "d", "e", "f", "g", "h", "i", "j", "k", "l", "m", "n", "u"}
isalnum(c) == c \in AlnumChars

UNSAFE_AT_22 ==
  {" ", "!", "\"", "#", "$", "'", "(", ")", "*", "+", ",", "-", ".", "/", ":", ";",
   "=", ">", "?", "@", "[", "\\", "]", "^", "_"}

unique_at_22 == 14

\* the for loop of the splitter from index i: where the 14th distinct
\* character stands (0: nowhere) and the last alphanumeric index before it
RECURSIVE ScanFrom(_, _, _, _)
ScanFrom(text, i, seen, last_alnum_before_14) ==
  IF i > Len(text) THEN [pos14_index |-> 0, last |-> last_alnum_before_14]
  ELSE LET char == text[i]
       IN  IF char \notin seen /\ Cardinality(seen \cup {char}) = unique_at_22
           THEN [pos14_index |-> i, last |-> last_alnum_before_14]
           ELSE ScanFrom(text, i + 1, seen \cup {char},
                         IF isalnum(char) THEN i ELSE last_alnum_before_14)

RECURSIVE SplitFrom(_, _)
SplitFrom(text, start) ==
  IF start > Len(text) THEN <<>>
  ELSE LET r == ScanFrom(text, start, {}, 0)
       IN  IF /\ r.pos14_index # 0
              /\ text[r.pos14_index] \in UNSAFE_AT_22
              /\ r.last # 0 /\ r.last > start
           THEN <<SubSeq(text, start, r.last - 1)>> \o SplitFrom(text, r.last)
           ELSE <<SubSeq(text, start, Len(text))>>

_split_for_wtype_keycode22(text) == IF text = <<>> THEN <<>> ELSE SplitFrom(text, 1)

\* variant: the word separator is left out
type_with_wtype_unspaced(text) == _split_for_wtype_keycode22(text)

\* the strings handed to the wtype tool, one per subprocess call
type_with_wtype(text) == _split_for_wtype_keycode22(text \o <<" ">>)

\* KeyboardTyper.type_text
typer_type_text(text) == IF Strip(text) = <<>> THEN <<>> ELSE type_with_wtype(text)

\* --------------------------------------------------------- _reload_filters
\* The filter file: its mtime, whether it loads (it is readable and its YAML
\* parses to a mapping), and what each of its three lists holds: patterns that
\* compile ("good"), a pattern that does not ("bad_pattern"), or an entry that
\* is no mapping with a string pattern ("malformed").
Sections == {"good", "bad_pattern", "malformed"}

FileOf(m, loads, h, f, n) ==
  [exists |-> TRUE, mtime |-> m, loads |-> loads,
   hallucinations |-> h, fillers |-> f, non_ascii |-> n]

ShippedFile == FileOf(1, TRUE, "good", "good", "good")

\* _compile_filters: the compiled list is known by the file version it came
\* from; a pattern that does not compile is left out of it (re.error is caught)
_compile_filters(mtime, section) == [of |-> mtime, complete |-> section = "good"]

NoList == [of |-> 0, complete |-> TRUE]
NoFilters == [hallucination |-> NoList, filler |-> NoList, non_ascii |-> NoList, mtime |-> 0]

\* variant: the three lists are compiled first and installed together
reload_all_or_nothing(f, file) ==
  IF ~file.exists \/ file.mtime = f.mtime \/ ~file.loads THEN f
  ELSE IF \E x \in {file.hallucinations, file.fillers, file.non_ascii} : x # "good" THEN f
  ELSE [hallucination |-> _compile_filters(file.mtime, file.hallucinations),
        filler |-> _compile_filters(file.mtime, file.fillers),
        non_ascii |-> _compile_filters(file.mtime, file.non_ascii),
        mtime |-> file.mtime]

\* the three assignments one after another; an exception ends the reload
\* where it is raised and is logged
_reload_filters(f, file) ==
  IF ~file.exists THEN f
  ELSE IF file.mtime = f.mtime THEN f
  ELSE IF ~file.loads THEN f
  ELSE IF file.hallucinations = "malformed" THEN f
  ELSE LET f1 == [f EXCEPT !.hallucination = _compile_filters(file.mtime, file.hallucinations)]
       IN  IF file.fillers = "malformed" THEN f1
           ELSE LET f2 == [f1 EXCEPT !.filler = _compile_filters(file.mtime, file.fillers)]
                IN  IF file.non_ascii = "malformed" THEN f2
                    ELSE [f2 EXCEPT !.non_ascii = _compile_filters(file.mtime, file.non_ascii),
                                    !.mtime = file.mtime]

\* ------------------------------------------------------ output of a text
\* TranscriptManager.type_text
\* the lines of the transcript file
FileLines(out) == Cardinality({k \in 1..Len(out) : out[k].emitted})

\* KeyboardTyper.type_text returns False without a method, and when the
\* method raises; TranscriptManager.type_text logs either and returns
type_text(q, text) ==
  IF Strip(text) = <<>> THEN q
  ELSE LET success == q.typer = "wtype"
       IN  [q EXCEPT !.typed = IF success THEN Append(@, typer_type_text(text)) ELSE @,
                     !.injections = Append(@, [ok |-> success, lines |-> FileLines(q.out)])]

\* a partial text is printed to the terminal only; a final one is also a line
\* of the transcript file
\* variant: a partial text is written to the transcript file like a final one
log_transcript_always_final(q, id, text, partial) ==
  IF Strip(text) = <<>> THEN q
  ELSE [q EXCEPT !.out = Append(@, [id |-> id, emitted |-> TRUE])]

\* open(self.log_file, "a") raises when the file cannot be appended to
log_transcript(q, id, text, partial) ==
  IF Strip(text) = <<>> THEN q
  ELSE IF partial THEN q
  ELSE IF ~q.log_writable THEN [q EXCEPT !.raised = TRUE]
  ELSE [q EXCEPT !.out = Append(@, [id |-> id, emitted |-> TRUE])]

\* filter_text reloads the filters before it applies them to a text that is not empty
Reloaded(q, text) ==
  IF text = <<>> THEN q ELSE [q EXCEPT !.filters = _reload_filters(@, q.file)]

\* variant: the text is typed before it is written to the transcript file
output_typing_first(q, id, transcript) ==
  LET filtered_transcript == filter_text(transcript)
      silent == [id |-> id, emitted |-> FALSE]
      q0 == Reloaded(q, transcript)
  IN  IF filtered_transcript # <<>> /\ _is_fuzzy_duplicate(q0.recent, filtered_transcript)
      THEN [q0 EXCEPT !.dups = @ + 1, !.out = Append(@, silent)]
      ELSE IF filtered_transcript # <<>>
      THEN LET q1 == [q0 EXCEPT !.recent = Trimmed(Append(@, [old |-> FALSE,
                                                  text |-> filtered_transcript]))]
           IN  log_transcript(type_text(q1, filtered_transcript),
                              id, filtered_transcript, FALSE)
      ELSE [q0 EXCEPT !.out = Append(@, silent)]

\* an exception (q.raised) ends the call where it is raised
_output_transcript(q, id, transcript) ==
  LET filtered_transcript == filter_text(transcript)
      silent == [id |-> id, emitted |-> FALSE]
      q0 == Reloaded(q, transcript)
  IN  IF filtered_transcript # <<>> /\ _is_fuzzy_duplicate(q0.recent, filtered_transcript)
      THEN [q0 EXCEPT !.dups = @ + 1, !.out = Append(@, silent)]
      ELSE IF filtered_transcript # <<>>
      THEN LET q1 == [q0 EXCEPT !.recent = Trimmed(Append(@, [old |-> FALSE,
                                                  text |-> filtered_transcript]))]
               logged == log_transcript(q1, id, filtered_transcript, FALSE)
           IN  IF logged.raised THEN logged ELSE type_text(logged, filtered_transcript)
      ELSE [q0 EXCEPT !.out = Append(@, silent)]

Without(f, k) == [j \in (DOMAIN f) \ {k} |-> f[j]]
With(f, k, v) == [j \in (DOMAIN f) \cup {k} |-> IF j = k THEN v ELSE f[j]]

\* variant: an item without a stored transcript is stepped over (continue for break)
RECURSIVE flush_stepping_over(_)
flush_stepping_over(q) ==
  IF q.idx < Len(q.order)
  THEN LET next_item_id == q.order[q.idx + 1]
       IN  IF next_item_id \in DOMAIN q.done
           THEN LET popped == [q EXCEPT !.done = Without(@, next_item_id)]
                    shown == _output_transcript(popped, next_item_id, q.done[next_item_id])
                IN  flush_stepping_over([shown EXCEPT !.idx = @ + 1])
           ELSE flush_stepping_over([q EXCEPT !.idx = @ + 1])
  ELSE q

\* variant: the cursor is not advanced after an output
flush_not_advancing(q) ==
  IF q.idx < Len(q.order) /\ q.order[q.idx + 1] \in DOMAIN q.done
  THEN LET next_item_id == q.order[q.idx + 1]
       IN  _output_transcript([q EXCEPT !.done = Without(@, next_item_id)],
                              next_item_id, q.done[next_item_id])
  ELSE q

\* variant: an if for the while, at most one item is output
flush_one_only(q) ==
  IF q.idx < Len(q.order) /\ q.order[q.idx + 1] \in DOMAIN q.done
  THEN LET next_item_id == q.order[q.idx + 1]
           popped == [q EXCEPT !.done = Without(@, next_item_id)]
           shown == _output_transcript(popped, next_item_id, q.done[next_item_id])
       IN  [shown EXCEPT !.idx = @ + 1]
  ELSE q

RECURSIVE _flush_ordered_transcripts(_)
_flush_ordered_transcripts(q) ==
  IF q.idx < Len(q.order)
  THEN LET next_item_id == q.order[q.idx + 1]
       IN  IF next_item_id \in DOMAIN q.done
           THEN LET popped == [q EXCEPT !.done = Without(@, next_item_id)]
                    shown == _output_transcript(popped, next_item_id, q.done[next_item_id])
                IN  IF shown.raised THEN shown
                    ELSE _flush_ordered_transcripts([shown EXCEPT !.idx = @ + 1])
           ELSE q
  ELSE q

InDict(keys, id) == id \in keys

InList(order, id) == \E k \in 1..Len(order) : order[k] = id

\* variant: no check of the completed flag
handle_without_race_check(q, keys, item_id, transcript) ==
  LET q1 == IF item_id # NoId /\ InDict(keys, item_id)
            THEN [q EXCEPT !.times[item_id].completed = TRUE]
            ELSE q
  IN  IF item_id = NoId
      THEN _output_transcript(q1, item_id, transcript)
      ELSE _flush_ordered_transcripts([q1 EXCEPT !.done = With(@, item_id, transcript)])

\* variant: an id that is not in item_order is output at once, like a missing id
handle_bypassing_uncreated(q, keys, item_id, transcript) ==
  IF item_id # NoId /\ InDict(keys, item_id) /\ q.times[item_id].completed
  THEN [q EXCEPT !.races = @ + 1]
  ELSE LET q1 == IF item_id # NoId /\ InDict(keys, item_id)
                 THEN [q EXCEPT !.times[item_id].completed = TRUE]
                 ELSE q
       IN  IF item_id = NoId \/ ~InList(q.order, item_id)
           THEN _output_transcript(q1, item_id, transcript)
           ELSE _flush_ordered_transcripts([q1 EXCEPT !.done = With(@, item_id, transcript)])

\* variant: an empty transcript is marked completed but not put in the queue
handle_dropping_empty(q, keys, item_id, transcript) ==
  IF item_id # NoId /\ InDict(keys, item_id) /\ q.times[item_id].completed
  THEN [q EXCEPT !.races = @ + 1]
  ELSE LET q1 == IF item_id # NoId /\ InDict(keys, item_id)
                 THEN [q EXCEPT !.times[item_id].completed = TRUE]
                 ELSE q
       IN  IF item_id = NoId
           THEN _output_transcript(q1, item_id, transcript)
           ELSE IF transcript = <<>> THEN q1
           ELSE _flush_ordered_transcripts([q1 EXCEPT !.done = With(@, item_id, transcript)])

handle_completed_transcript(q, keys, item_id, transcript) ==
  IF item_id # NoId /\ InDict(keys, item_id) /\ q.times[item_id].completed
  THEN [q EXCEPT !.races = @ + 1]
  ELSE LET q1 == IF item_id # NoId /\ InDict(keys, item_id)
                 THEN [q EXCEPT !.times[item_id].completed = TRUE]
                 ELSE q
       IN  IF item_id = NoId
           THEN _output_transcript(q1, item_id, transcript)
           ELSE _flush_ordered_transcripts([q1 EXCEPT !.done = With(@, item_id, transcript)])

\* variant: no check that the id is already recorded
track_appending_again(order, item_id) ==
  IF item_id # NoId THEN Append(order, item_id) ELSE order

track_item_creation(order, item_id) ==
  IF item_id # NoId /\ ~InList(order, item_id) THEN Append(order, item_id) ELSE order

\* ------------------------------------------------------------ AudioBuffer
\* TranscriptManager.set_item_speech_times: the queue refers to the dict it is given
\* variant: the queue keeps the dict it has
set_keeping_dict(item_speech_times_ref) == tm_dict

set_item_speech_times(item_speech_times_ref) == item_speech_times_ref

NoTimes == [has_stop |-> FALSE, completed |-> FALSE, start_ms |-> 0, end_ms |-> 0,
            stopped_at |-> NoTime]

record_speech_started(keys, tms, item_id, audio_start_ms) ==
  [keys |-> keys \cup {item_id},
   times |-> [tms EXCEPT ![item_id] = [NoTimes EXCEPT !.start_ms = audio_start_ms]]]

record_speech_stopped(keys, tms, item_id, audio_end_ms) ==
  IF InDict(keys, item_id)
  THEN [tms EXCEPT ![item_id].has_stop = TRUE, ![item_id].end_ms = audio_end_ms,
                   ![item_id].stopped_at = now]
  ELSE tms


\* ------------------------------------------------------------------ state
\* output_lock: who is inside "with self.output_lock", and with which call
Unlocked == [by |-> "none", id |-> NoId, text |-> NoText]

NoTicker == [pc |-> "none", item |-> NoId]

Init ==
  /\ running = TRUE
  /\ should_reconnect = FALSE
  /\ reconnect_attempts = 0
  /\ transcript_buffer = <<>>
  /\ main_pc = "loop"
  /\ ws_state = "none"
  /\ delay = 0
  /\ session_expirations = 0 /\ api_errors = 0 /\ fallback_races = 0
  /\ item_order = <<>>
  /\ completed_transcripts = <<>>
  /\ next_output_index = 0
  /\ recent_transcripts = <<>>
  /\ item_speech_times = {}
  /\ times = [i \in Ids |-> NoTimes]
  /\ ab_running = FALSE
  /\ session_start_time = NoTime
  /\ ticker = [t \in 1..MaxOpens |-> NoTicker]
  /\ expired = FALSE
  /\ consecutive = 0
  /\ close_code = 0
  /\ outputs = <<>>
  /\ typed = <<>>
  /\ now = 1
  /\ audio_buffer = <<>>
  /\ audio_pc = "none"
  /\ output_lock = Unlocked
  /\ log_writable = TRUE
  /\ typer = "wtype"
  /\ filters_file = ShippedFile
  /\ filters = _reload_filters(NoFilters, ShippedFile)
  /\ injections = <<>>
  /\ duplicates_filtered = 0
  /\ opens = 0
  /\ connects = 0
  /\ repeats = 0
  /\ timeouts = [i \in Ids |-> 0]
  /\ sent = <<>>
  /\ ab_dict = 0
  /\ tm_dict = 0

\* the fields a completion works on, and their write-back
Queue ==
  [order |-> item_order, done |-> completed_transcripts, idx |-> next_output_index,
   recent |-> recent_transcripts, times |-> times, races |-> fallback_races,
   dups |-> duplicates_filtered, out |-> outputs, typed |-> typed,
   filters |-> filters, injections |-> injections,
   log_writable |-> log_writable, typer |-> typer, file |-> filters_file,
   raised |-> FALSE]

Store(q) ==
  /\ item_order' = q.order
  /\ completed_transcripts' = q.done
  /\ next_output_index' = q.idx
  /\ recent_transcripts' = q.recent
  /\ times' = q.times
  /\ fallback_races' = q.races
  /\ duplicates_filtered' = q.dups
  /\ outputs' = q.out
  /\ typed' = q.typed
  /\ filters' = q.filters
  /\ injections' = q.injections

\* ---------------------------------------------- TranscriptionSession.run
Connect(limit) ==
  /\ main_pc = "loop" /\ running /\ connects < limit
  /\ should_reconnect' = FALSE
  /\ ws_state' = "connecting"
  /\ main_pc' = "run_forever"
  /\ connects' = connects + 1
  /\ expired' = FALSE
  /\ UNCHANGED <<running, reconnect_attempts, transcript_buffer, delay,
                 metricVars, tmVars, abVars,
                 consecutive, close_code, outputs, typed, opens, repeats>>
  /\ UNCHANGED extraVars
  \* a new WebSocketApp: nothing has been sent on it
  /\ sent' = <<>>
  /\ UNCHANGED <<envVars, outVars, timeouts, ab_dict, tm_dict>>

on_open ==
  /\ main_pc = "run_forever" /\ ws_state = "connecting" /\ opens < MaxOpens
  /\ ws_state' = "open"
  /\ opens' = opens + 1
  /\ consecutive' = 0
  \* audio_buffer.start()
  /\ ab_running' = TRUE
  /\ session_start_time' = now
  /\ ticker' = [ticker EXCEPT ![opens + 1] = [NoTicker EXCEPT !.pc = "loop"]]
  /\ UNCHANGED <<running, should_reconnect, reconnect_attempts, transcript_buffer,
                 main_pc, delay, metricVars, tmVars, item_speech_times, times,
                 expired, close_code, outputs, typed, connects, repeats>>
  /\ UNCHANGED extraVars
  \* ws.send(session_config), before the threads are started
  /\ sent' = Append(sent, "transcription_session.update")
  /\ UNCHANGED <<envVars, outVars, timeouts, ab_dict, tm_dict>>

\* variant: only 1006 and a missing code ask for a reconnect
on_close_abnormal_only(code) ==
  /\ main_pc = "run_forever"
  /\ \/ ws_state \in {"open", "closing"}
     \/ ws_state = "connecting" /\ code = 0
  /\ LET sr == should_reconnect \/ code \in {1006, 0}
     IN  /\ should_reconnect' = sr
         /\ running' = IF ~sr THEN FALSE ELSE running
  /\ ws_state' = "closed"
  /\ main_pc' = "after_run"
  /\ close_code' = code
  /\ UNCHANGED <<reconnect_attempts, transcript_buffer, delay,
                 metricVars, tmVars, abVars,
                 expired, consecutive, outputs, typed, opens, connects, repeats>>
  /\ UNCHANGED extraVars
  /\ UNCHANGED <<envVars, outVars, sideVars>>

on_close(code) ==
  /\ main_pc = "run_forever"
  /\ \/ ws_state \in {"open", "closing"}
     \/ ws_state = "connecting" /\ code = 0
  /\ LET sr == should_reconnect \/ code # 1000
     IN  /\ should_reconnect' = sr
         /\ running' = IF ~sr THEN FALSE ELSE running
  /\ ws_state' = "closed"
  /\ main_pc' = "after_run"
  /\ close_code' = code
  /\ UNCHANGED <<reconnect_attempts, transcript_buffer, delay,
                 metricVars, tmVars, abVars,
                 expired, consecutive, outputs, typed, opens, connects, repeats>>
  /\ UNCHANGED extraVars
  /\ UNCHANGED <<envVars, outVars, sideVars>>

BackoffDelay(n) == Min(reconnect_delay * Pow2(n - 1), max_delay)

\* run(), lines after run_forever returns: reconnect branch or leave the loop
after_run ==
  /\ main_pc = "after_run"
  /\ IF should_reconnect /\ running
     THEN /\ reconnect_attempts' = reconnect_attempts + 1
          /\ consecutive' = consecutive + 1
          /\ IF reconnect_attempts' > max_reconnect_attempts
             THEN /\ running' = FALSE
                  /\ ab_running' = FALSE
                  /\ main_pc' = "done"
                  /\ delay' = delay
             ELSE /\ delay' = BackoffDelay(reconnect_attempts')
                  /\ main_pc' = "backoff"
                  /\ UNCHANGED <<running, ab_running>>
     ELSE /\ running' = FALSE
          /\ ab_running' = FALSE
          /\ main_pc' = "done"
          /\ UNCHANGED <<reconnect_attempts, consecutive, delay>>
  /\ UNCHANGED <<should_reconnect, transcript_buffer, ws_state, metricVars, tmVars,
                 item_speech_times, times, session_start_time, ticker,
                 expired, close_code, outputs, typed, opens, connects, repeats>>
  /\ UNCHANGED extraVars
  /\ UNCHANGED <<envVars, outVars, sideVars>>

\* reset_session_state up to the join inside audio_buffer.stop()
\* variant: the reset also empties the window of recent transcripts
reset_clearing_window ==
  /\ main_pc = "backoff"
  /\ transcript_buffer' = <<>>
  /\ item_order' = <<>>
  /\ completed_transcripts' = <<>>
  /\ next_output_index' = 0
  /\ recent_transcripts' = <<>>
  /\ ab_running' = FALSE
  /\ main_pc' = "join"
  /\ UNCHANGED <<running, should_reconnect, reconnect_attempts, ws_state, delay,
                 metricVars, item_speech_times, times,
                 session_start_time, ticker,
                 expired, consecutive, close_code, outputs, typed, opens, connects, repeats>>
  /\ UNCHANGED extraVars
  /\ UNCHANGED <<envVars, outVars, sideVars>>

reset_begin ==
  /\ main_pc = "backoff"
  /\ transcript_buffer' = <<>>
  /\ item_order' = <<>>
  /\ completed_transcripts' = <<>>
  /\ next_output_index' = 0
  /\ ab_running' = FALSE
  /\ main_pc' = "join"
  /\ UNCHANGED <<running, should_reconnect, reconnect_attempts, ws_state, delay,
                 metricVars, recent_transcripts, item_speech_times, times,
                 session_start_time, ticker,
                 expired, consecutive, close_code, outputs, typed, opens, connects, repeats>>
  /\ UNCHANGED extraVars
  /\ UNCHANGED <<envVars, outVars, sideVars>>

\* the join returns (thread ended, or 2 s passed inside a fallback request);
\* audio_buffer.reset(), re-link of the shared dict, and run() line 435
reset_end ==
  /\ main_pc = "join"
  /\ \A t \in 1..MaxOpens :
        \/ ticker[t].pc \in {"none", "dead"}
        \/ ticker[t].pc = "fallback"
  /\ session_start_time' = NoTime
  /\ item_speech_times' = {}
  /\ times' = [i \in Ids |-> NoTimes]
  /\ ws_state' = "none"
  /\ reconnect_attempts' = 0
  /\ main_pc' = "loop"
  /\ UNCHANGED <<running, should_reconnect, transcript_buffer, delay,
                 metricVars, tmVars, ab_running, ticker,
                 expired, consecutive, close_code, outputs, typed, opens, connects, repeats>>
  /\ audio_buffer' = <<>>
  \* the stream is closed and the capture thread joined: its read raises and
  \* its loop is left
  /\ audio_pc' = IF audio_pc = "none" THEN "none" ELSE "dead"
  /\ UNCHANGED <<now, output_lock>>
  \* reset() makes a new dict, set_item_speech_times hands it to the queue
  /\ ab_dict' = ab_dict + 1
  /\ tm_dict' = set_item_speech_times(ab_dict')
  /\ UNCHANGED <<envVars, outVars, timeouts, sent>>


\* --------------------------------------------- TranscriptionSession.on_message
Inbound == main_pc = "run_forever" /\ ws_state = "open"

Spend(redundant) ==
  /\ redundant => repeats < MaxRepeats
  /\ repeats' = IF redundant THEN repeats + 1 ELSE repeats

\* a completion was delivered for item i before
Settled(i) ==
  \/ InDict(item_speech_times, i) /\ times[i].completed
  \/ i \in DOMAIN completed_transcripts
  \/ \E k \in 1..Len(outputs) : outputs[k].id = i

\* item ids are opaque: the k-th id the service creates on a connection is
\* named <<connection, k>>
NextCreated(i) == InList(item_order, i) \/ i[2] = Len(item_order) + 1

item_created(i) ==
  /\ Inbound
  /\ NextCreated(i)
  /\ Spend(InList(item_order, i))
  /\ item_order' = track_item_creation(item_order, i)
  /\ UNCHANGED <<sessionVars, metricVars, completed_transcripts, next_output_index,
                 recent_transcripts, abVars,
                 expired, consecutive, close_code, outputs, typed, opens, connects>>
  /\ UNCHANGED extraVars
  /\ UNCHANGED <<envVars, outVars, sideVars>>

speech_started(i, audio_start_ms) ==
  /\ Inbound
  /\ Spend(InDict(item_speech_times, i))
  /\ LET r == record_speech_started(item_speech_times, times, i, audio_start_ms)
     IN  /\ item_speech_times' = r.keys
         /\ times' = r.times
  /\ UNCHANGED <<sessionVars, metricVars, tmVars, ab_running, session_start_time, ticker,
                 expired, consecutive, close_code, outputs, typed, opens, connects>>
  /\ UNCHANGED extraVars
  /\ UNCHANGED <<envVars, outVars, sideVars>>

speech_stopped(i, audio_end_ms) ==
  /\ Inbound
  /\ InDict(item_speech_times, i)
  /\ Spend(times[i].has_stop)
  /\ times' = record_speech_stopped(item_speech_times, times, i, audio_end_ms)
  /\ UNCHANGED <<sessionVars, metricVars, tmVars, item_speech_times, ab_running,
                 session_start_time, ticker,
                 expired, consecutive, close_code, outputs, typed, opens, connects>>
  /\ UNCHANGED extraVars
  /\ UNCHANGED <<envVars, outVars, sideVars>>

\* the branch of on_message for ...input_audio_transcription.completed and for
\* the legacy response.audio_transcript.done, on the queue and the partial
\* buffer: `if transcript:` guards the call and the clearing, and the handler
\* around on_message catches what the call raises
\* variant: the call and the clearing are made for every transcript
on_completed_unguarded(q, buffer, keys, item_id, transcript) ==
  LET r == handle_completed_transcript(q, keys, item_id, transcript)
  IN  [q |-> r, buffer |-> IF r.raised THEN buffer ELSE <<>>]

on_completed(q, buffer, keys, item_id, transcript) ==
  IF transcript # <<>>
  THEN LET r == handle_completed_transcript(q, keys, item_id, transcript)
       IN  [q |-> r, buffer |-> IF r.raised THEN buffer ELSE <<>>]
  ELSE [q |-> q, buffer |-> buffer]

transcription_completed(i, transcript) ==
  /\ Inbound
  /\ Spend(transcript # <<>> /\ (i = NoId \/ Settled(i)))
  /\ LET r == on_completed(Queue, transcript_buffer, item_speech_times, i, transcript)
     IN  /\ Store(r.q)
         /\ transcript_buffer' = r.buffer
  /\ UNCHANGED <<running, should_reconnect, reconnect_attempts, main_pc, ws_state, delay,
                 session_expirations, api_errors,
                 item_speech_times, ab_running, session_start_time, ticker,
                 expired, consecutive, close_code, opens, connects>>
  /\ UNCHANGED extraVars
  /\ UNCHANGED <<envVars, sideVars>>

\* ...transcription.delta and the legacy response.audio_transcript.delta
transcription_delta(d) ==
  /\ Inbound
  /\ Len(transcript_buffer) < MaxPartial
  /\ transcript_buffer' = transcript_buffer \o d
  /\ LET filtered_buffer == filter_text(transcript_buffer')
         q0 == Reloaded(Queue, transcript_buffer')
     IN  Store(IF filtered_buffer # <<>>
               THEN log_transcript(q0, NoId, filtered_buffer, TRUE)
               ELSE q0)
  /\ UNCHANGED <<running, should_reconnect, reconnect_attempts, main_pc, ws_state, delay,
                 session_expirations, api_errors,
                 item_speech_times, ab_running, session_start_time, ticker,
                 expired, consecutive, close_code, opens, connects, repeats>>
  /\ UNCHANGED extraVars
  /\ UNCHANGED <<envVars, sideVars>>

\* variant: session_expired closes the socket without asking for a reconnect
error_event_close_only(code) ==
  /\ Inbound
  /\ IF code = "session_expired"
     THEN /\ session_expirations' = session_expirations + 1
          /\ ws_state' = "closing"
          /\ expired' = TRUE
          /\ UNCHANGED <<should_reconnect, api_errors, repeats>>
     ELSE /\ Spend(TRUE)
          /\ api_errors' = api_errors + 1
          /\ UNCHANGED <<session_expirations, should_reconnect, ws_state, expired>>
  /\ UNCHANGED <<running, reconnect_attempts, transcript_buffer, main_pc, delay,
                 fallback_races, duplicates_filtered,
                 tmVars, abVars, consecutive, close_code, outputs, typed, opens, connects>>
  /\ UNCHANGED extraVars
  /\ UNCHANGED <<envVars, outVars, sideVars>>

error_event(code) ==
  /\ Inbound
  /\ IF code = "session_expired"
     THEN /\ session_expirations' = session_expirations + 1
          /\ should_reconnect' = TRUE
          /\ ws_state' = "closing"
          /\ expired' = TRUE
          /\ UNCHANGED <<api_errors, repeats>>
     ELSE /\ Spend(TRUE)
          /\ api_errors' = api_errors + 1
          /\ UNCHANGED <<session_expirations, should_reconnect, ws_state, expired>>
  /\ UNCHANGED <<running, reconnect_attempts, transcript_buffer, main_pc, delay,
                 fallback_races, duplicates_filtered,
                 tmVars, abVars, consecutive, close_code, outputs, typed, opens, connects>>
  /\ UNCHANGED extraVars
  /\ UNCHANGED <<envVars, outVars, sideVars>>

\* --------------------------------------------- AudioBuffer._check_timeouts
\* The ticker is either in its loop (asleep, or walking over the utterances)
\* or inside _fallback_transcribe for one item.

\* while self.running: the loop condition is found false
tick_exit(t) ==
  /\ ticker[t].pc = "loop"
  /\ ~ab_running
  /\ ticker' = [ticker EXCEPT ![t].pc = "dead"]
  /\ UNCHANGED <<sessionVars, metricVars, tmVars, item_speech_times, times, ab_running,
                 session_start_time,
                 expired, consecutive, close_code, outputs, typed, opens, connects, repeats>>
  /\ UNCHANGED extraVars
  /\ UNCHANGED <<envVars, outVars, sideVars>>

\* variant: the skip condition takes a recorded stop for a missing one
eligible_without_stop(i) ==
  /\ InDict(item_speech_times, i)
  /\ ~times[i].completed
  /\ ~times[i].has_stop

Eligible(i) ==
  /\ InDict(item_speech_times, i)
  /\ ~times[i].completed
  /\ times[i].has_stop

\* an iteration of the for loop that finds timeout_seconds passed since item
\* i stopped, up to the call of _fallback_transcribe
tick_scan(t, i) ==
  /\ ticker[t].pc = "loop"
  /\ session_start_time # NoTime
  /\ Eligible(i)
  /\ ticker' = [ticker EXCEPT ![t] = [pc |-> "fallback", item |-> i]]
  /\ UNCHANGED <<sessionVars, metricVars, tmVars, item_speech_times, times,
                 ab_running, session_start_time,
                 expired, consecutive, close_code, outputs, typed, opens, connects, repeats>>
  /\ UNCHANGED extraVars
  /\ UNCHANGED <<envVars, outVars, sideVars>>

\* on_transcript_complete has no handler around it in _check_timeouts: an
\* exception raised in it ends the ticker thread
Delivered(t, r) ==
  /\ Store(r)
  /\ ticker' = [ticker EXCEPT ![t] = [NoTicker EXCEPT !.pc = IF r.raised THEN "dead" ELSE "loop"]]

\* _fallback_transcribe returns; on_transcript_complete(item_id, transcript or "")
tick_deliver(t, transcript) ==
  /\ ticker[t].pc = "fallback"
  /\ Delivered(t, handle_completed_transcript(Queue, item_speech_times, ticker[t].item,
                                              transcript))
  /\ UNCHANGED <<sessionVars, session_expirations, api_errors,
                 item_speech_times, ab_running, session_start_time,
                 expired, consecutive, close_code, opens, connects, repeats>>
  /\ UNCHANGED extraVars
  /\ UNCHANGED <<envVars, sideVars>>

\* time passes: the oldest recent transcript still in the window leaves it
recent_ages ==
  /\ \E k \in 1..Len(recent_transcripts) :
        /\ ~recent_transcripts[k].old
        /\ \A j \in 1..(k - 1) : recent_transcripts[j].old
        /\ recent_transcripts' = [recent_transcripts EXCEPT ![k].old = TRUE]
  /\ UNCHANGED <<sessionVars, metricVars, item_order, completed_transcripts,
                 next_output_index, abVars,
                 expired, consecutive, close_code, outputs, typed, opens, connects, repeats>>
  /\ UNCHANGED extraVars
  /\ UNCHANGED <<envVars, outVars, sideVars>>

\* ---------------------------------------------------------- specifications
Events ==
  \/ \E i \in IdsOf(opens) : item_created(i)
  \/ \E i \in IdsOf(opens) : speech_started(i, 0)
  \/ \E i \in IdsOf(opens) : speech_stopped(i, 0)
  \/ \E i \in IdsOf(opens) \cup {NoId}, x \in RawTexts \cup {NoText} :
        transcription_completed(i, x)

Ticker ==
  \/ \E t \in 1..MaxOpens, i \in Ids : tick_scan(t, i)
  \/ \E t \in 1..MaxOpens, x \in RawTexts \cup {NoText} : tick_deliver(t, x)

Next ==
  \/ Connect(1)
  \/ on_open
  \/ Events
  \/ Ticker
  \/ recent_ages

Spec == Init /\ [][Next]_vars

\* the run loop with its closes and reconnects; the service sends partial text
\* and errors, but no item events
NextConn ==
  \/ Connect(MaxFailures)
  \/ on_open
  \/ \E c \in CloseCodes : on_close(c)
  \/ after_run
  \/ reset_begin
  \/ reset_end
  \/ \E c \in ErrorCodes : error_event(c)
  \/ \E t \in 1..MaxOpens : tick_exit(t)
  \/ \E d \in Deltas : transcription_delta(d)

SpecConn == Init /\ [][NextConn]_vars

\* one utterance per connection, across a reconnect: the events of the first
\* item of the open connection, the ticker threads of both connections, one
\* abnormal close and the reset
FirstItem == {i \in IdsOf(opens) : i[2] = 1}

NextRe ==
  \/ Connect(2)
  \/ on_open
  \/ \E i \in FirstItem : item_created(i)
  \/ \E i \in FirstItem : speech_started(i, 0)
  \/ \E i \in FirstItem : speech_stopped(i, 0)
  \/ \E i \in FirstItem, x \in RawTexts : transcription_completed(i, x)
  \/ Ticker
  \/ recent_ages
  \/ on_close(1006)
  \/ after_run
  \/ reset_begin
  \/ reset_end
  \/ \E t \in 1..MaxOpens : tick_exit(t)

SpecRe == Init /\ [][NextRe]_vars

\* the text path: completions with every kind of transcript, for the items of
\* one connection and without an item id
NextText ==
  \/ Connect(1)
  \/ on_open
  \/ \E i \in IdsOf(opens) : item_created(i)
  \/ \E i \in IdsOf(opens) \cup {NoId}, x \in Texts : transcription_completed(i, x)
  \/ recent_ages

SpecText == Init /\ [][NextText]_vars

\* the filter on its own: the partial buffer takes every short text, and
\* every delta event filters it
NextFilter ==
  \/ Connect(1)
  \/ on_open
  \/ \E d \in FilterDeltas : transcription_delta(d)

SpecFilter == Init /\ [][NextFilter]_vars

\* the same path with the transcripts that reach 14 distinct characters
NextSplit ==
  \/ Connect(1)
  \/ on_open
  \/ \E i \in IdsOf(opens) : item_created(i)
  \/ \E i \in IdsOf(opens) \cup {NoId}, x \in SplitTexts : transcription_completed(i, x)
  \/ recent_ages

SpecSplit == Init /\ [][NextSplit]_vars

\* the duplicate check: a run of completions without an item id.  The two
\* similar transcripts come at any time and any number of times; the seven
\* unrelated ones are interchangeable and come once each, in their order.
InWindow(k) ==
  \E j \in 1..Len(recent_transcripts) : recent_transcripts[j].text = DedupTexts[k]

InOrder(k) ==
  IF k <= 2 THEN TRUE
  ELSE ~InWindow(k) /\ (k > 3 => InWindow(k - 1))

dedup_completed(k) ==
  /\ Inbound
  /\ Len(outputs) < MaxCalls
  /\ InOrder(k)
  /\ LET r == handle_completed_transcript(Queue, item_speech_times, NoId, DedupTexts[k])
     IN  /\ Store(r)
         /\ transcript_buffer' = IF r.raised THEN transcript_buffer ELSE <<>>
  /\ UNCHANGED <<running, should_reconnect, reconnect_attempts, main_pc, ws_state, delay,
                 session_expirations, api_errors,
                 item_speech_times, ab_running, session_start_time, ticker,
                 expired, consecutive, close_code, opens, connects, repeats>>
  /\ UNCHANGED extraVars
  /\ UNCHANGED <<envVars, sideVars>>

Aged == Cardinality({j \in 1..Len(recent_transcripts) : recent_transcripts[j].old})

NextDedup ==
  \/ Connect(1)
  \/ on_open
  \/ \E k \in 1..Len(DedupTexts) : dedup_completed(k)
  \/ Aged < MaxAged /\ recent_ages

SpecDedup == Init /\ [][NextDedup]_vars

\* ------------------------------------------------- the output lock, stepwise
\* handle_completed_transcript in two steps: the lock is taken, and the body
\* runs and the lock is given back.  The reader thread handles one message at
\* a time, and the main thread goes on only when run_forever has returned.
ReaderIdle == output_lock.by # "reader"

reader_acquire(i, transcript) ==
  /\ Inbound
  /\ transcript # <<>>
  /\ output_lock = Unlocked
  /\ Spend(i = NoId \/ Settled(i))
  /\ output_lock' = [by |-> "reader", id |-> i, text |-> transcript]
  /\ UNCHANGED <<sessionVars, metricVars, tmVars, abVars,
                 expired, consecutive, close_code, outputs, typed, opens, connects>>
  /\ UNCHANGED <<now, audio_buffer, audio_pc>>
  /\ UNCHANGED <<envVars, outVars, sideVars>>

reader_release ==
  /\ output_lock.by = "reader"
  /\ LET r == handle_completed_transcript(Queue, item_speech_times, output_lock.id,
                                          output_lock.text)
     IN  /\ Store(r)
         /\ transcript_buffer' = IF r.raised THEN transcript_buffer ELSE <<>>
  /\ output_lock' = Unlocked
  /\ UNCHANGED <<running, should_reconnect, reconnect_attempts, main_pc, ws_state, delay,
                 session_expirations, api_errors,
                 item_speech_times, ab_running, session_start_time, ticker,
                 expired, consecutive, close_code, opens, connects, repeats>>
  /\ UNCHANGED <<now, audio_buffer, audio_pc>>
  /\ UNCHANGED <<envVars, sideVars>>

\* _fallback_transcribe has returned, outside the lock; on_transcript_complete
\* takes it
ticker_acquire(t, transcript) ==
  /\ ticker[t].pc = "fallback"
  /\ output_lock = Unlocked
  /\ ticker' = [ticker EXCEPT ![t].pc = "locked"]
  /\ output_lock' = [by |-> "ticker", id |-> ticker[t].item, text |-> transcript]
  /\ UNCHANGED <<sessionVars, metricVars, tmVars, item_speech_times, times,
                 ab_running, session_start_time,
                 expired, consecutive, close_code, outputs, typed, opens, connects, repeats>>
  /\ UNCHANGED <<now, audio_buffer, audio_pc>>
  /\ UNCHANGED <<envVars, outVars, sideVars>>

ticker_release(t) ==
  /\ ticker[t].pc = "locked"
  /\ Delivered(t, handle_completed_transcript(Queue, item_speech_times, output_lock.id,
                                              output_lock.text))
  /\ output_lock' = Unlocked
  /\ UNCHANGED <<sessionVars, session_expirations, api_errors,
                 item_speech_times, ab_running, session_start_time,
                 expired, consecutive, close_code, opens, connects, repeats>>
  /\ UNCHANGED <<now, audio_buffer, audio_pc>>
  /\ UNCHANGED <<envVars, sideVars>>

NextLock ==
  \/ Connect(1)
  \/ on_open
  \/ ReaderIdle /\ \E i \in IdsOf(opens) : item_created(i)
  \/ ReaderIdle /\ \E i \in IdsOf(opens) : speech_started(i, 0)
  \/ ReaderIdle /\ \E i \in IdsOf(opens) : speech_stopped(i, 0)
  \/ \E i \in IdsOf(opens) \cup {NoId}, x \in RawTexts : reader_acquire(i, x)
  \/ reader_release
  \/ \E t \in 1..MaxOpens, i \in Ids : tick_scan(t, i)
  \/ \E t \in 1..MaxOpens, x \in RawTexts \cup {NoText} : ticker_acquire(t, x)
  \/ \E t \in 1..MaxOpens : ticker_release(t)
  \/ ReaderIdle /\ on_close(1006)
  \/ after_run
  \/ reset_begin
  \/ reset_end
  \/ \E t \in 1..MaxOpens : tick_exit(t)

SpecLock == Init /\ [][NextLock]_vars

\* ------------------------------------------------ capture thread and on_open
\* on_open in two steps, as the capture thread runs between them: up to
\* audio_thread.start(), and audio_buffer.start()
\* variant: the capture thread is started and no session update is sent
open_capture_unsent ==
  /\ main_pc = "run_forever" /\ ws_state = "connecting" /\ opens < MaxOpens
  /\ ws_state' = "open"
  /\ opens' = opens + 1
  /\ consecutive' = 0
  /\ audio_pc' = "opening"
  /\ UNCHANGED <<running, should_reconnect, reconnect_attempts, transcript_buffer,
                 main_pc, delay, metricVars, tmVars, abVars,
                 expired, close_code, outputs, typed, connects, repeats>>
  /\ UNCHANGED <<now, audio_buffer, output_lock>>
  /\ sent' = sent
  /\ UNCHANGED <<envVars, outVars, timeouts, ab_dict, tm_dict>>

open_capture ==
  /\ main_pc = "run_forever" /\ ws_state = "connecting" /\ opens < MaxOpens
  /\ ws_state' = "open"
  /\ opens' = opens + 1
  /\ consecutive' = 0
  /\ audio_pc' = "opening"
  /\ UNCHANGED <<running, should_reconnect, reconnect_attempts, transcript_buffer,
                 main_pc, delay, metricVars, tmVars, abVars,
                 expired, close_code, outputs, typed, connects, repeats>>
  /\ UNCHANGED <<now, audio_buffer, output_lock>>
  \* ws.send(session_config), before audio_thread.start()
  /\ sent' = Append(sent, "transcription_session.update")
  /\ UNCHANGED <<envVars, outVars, timeouts, ab_dict, tm_dict>>

open_ticker ==
  /\ ws_state = "open" /\ opens > 0 /\ ticker[opens].pc = "none"
  /\ ab_running' = TRUE
  /\ session_start_time' = now
  /\ ticker' = [ticker EXCEPT ![opens] = [NoTicker EXCEPT !.pc = "loop"]]
  /\ UNCHANGED <<sessionVars, metricVars, tmVars, item_speech_times, times,
                 expired, consecutive, close_code, outputs, typed, opens, connects, repeats>>
  /\ UNCHANGED extraVars
  /\ UNCHANGED <<envVars, outVars, sideVars>>

\* stream_audio: the stream is open; the session start time is set
capture_begin ==
  /\ audio_pc = "opening"
  /\ session_start_time' = now
  /\ audio_pc' = "loop"
  /\ UNCHANGED <<sessionVars, metricVars, tmVars, item_speech_times, times, ab_running,
                 ticker,
                 expired, consecutive, close_code, outputs, typed, opens, connects, repeats>>
  /\ UNCHANGED <<now, audio_buffer, output_lock>>
  /\ UNCHANGED <<envVars, outVars, sideVars>>

\* one round of the capture loop: add_audio_chunk, ws.send of the chunk
capture_chunk ==
  /\ audio_pc = "loop" /\ running /\ ws_state = "open"
  /\ Len(audio_buffer) < MaxChunks
  /\ session_start_time # NoTime
  /\ audio_buffer' = Append(audio_buffer, now - session_start_time)
  /\ UNCHANGED <<sessionVars, metricVars, tmVars, abVars,
                 expired, consecutive, close_code, outputs, typed, opens, connects, repeats>>
  /\ UNCHANGED <<now, audio_pc, output_lock>>
  /\ sent' = Append(sent, "input_audio_buffer.append")
  /\ UNCHANGED <<envVars, outVars, timeouts, ab_dict, tm_dict>>

\* time passes, up to the reading a specification follows it to
clock_tick(limit) ==
  /\ now < limit
  /\ now' = now + 1
  /\ UNCHANGED <<sessionVars, metricVars, tmVars, abVars, histVars>>
  /\ UNCHANGED <<audio_buffer, audio_pc, output_lock>>
  /\ UNCHANGED <<envVars, outVars, sideVars>>

NextAudio ==
  \/ Connect(1)
  \/ open_capture
  \/ open_ticker
  \/ capture_begin
  \/ capture_chunk
  \/ clock_tick(MaxClock)
  \/ \E i \in IdsOf(opens) : speech_started(i, 0)
  \/ \E i \in IdsOf(opens) : speech_stopped(i, 0)

SpecAudio == Init /\ [][NextAudio]_vars

\* stream.read raises in the capture loop (the device is gone): the error is
\* logged and the loop is left, which ends the capture thread
capture_error ==
  /\ audio_pc = "loop" /\ running /\ ws_state = "open"
  /\ audio_pc' = "dead"
  /\ UNCHANGED <<sessionVars, metricVars, tmVars, abVars, histVars>>
  /\ UNCHANGED <<now, audio_buffer, output_lock>>
  /\ UNCHANGED <<envVars, outVars, sideVars>>

\* the capture thread with a device that can fail
NextCapture ==
  \/ Connect(1)
  \/ open_capture
  \/ open_ticker
  \/ capture_begin
  \/ capture_chunk
  \/ capture_error
  \/ clock_tick(MaxClock)
  \/ \E i \in IdsOf(opens) : speech_started(i, 0)
  \/ \E i \in IdsOf(opens) : speech_stopped(i, 0)

SpecCapture == Init /\ [][NextCapture]_vars

\* The ticker thread keeps running: it wakes every second and walks over the
\* utterances, and a fallback request returns.  The second conjunct is
\* WF_vars(\E x : tick_deliver(t, x)) written out: that action is enabled
\* exactly while ticker t is in the fallback, and taking it leaves the fallback.
TickerRuns ==
  /\ WF_vars(\E t \in 1..MaxOpens, i \in Ids : tick_scan(t, i))
  /\ \A t \in 1..MaxOpens : []<>(ticker[t].pc # "fallback")

SpecLive == Init /\ [][Next]_vars /\ TickerRuns

\* ------------------------------------------- AudioBuffer: the fallback audio
\* the values session.py passes to AudioBuffer, and the step of the offset range
timestamp_margin_ms == 200
min_duration_ms == 300
offset_step == 20

\* the speech interval of the utterance and the frame timestamps of the ring, in ms
StartTimes == {200}
EndTimes == {218, 219, 499, 500}
FrameTimes == {0, 19, 419, 420, 700, 701}

Abs(x) == IF x < 0 THEN -x ELSE x

Candidates(ring, test_start, test_end) ==
  SelectSeq(ring, LAMBDA ts : test_start <= ts /\ ts <= test_end)

NoMatch == [chunks |-> <<>>, duration_error |-> 0, offset |-> 0]

\* the for loop of _find_best_chunk_match from offset_ms on, up to last_offset.
\* One frame lasts 1024 / 24000 * 1000 = 128 / 3 ms: the duration error is kept in thirds of a ms.
RECURSIVE BestFrom(_, _, _, _, _, _)
BestFrom(ring, start_ms, end_ms, offset_ms, last_offset, best) ==
  IF offset_ms > last_offset THEN best
  ELSE LET candidate_chunks == Candidates(ring, start_ms + offset_ms, end_ms + offset_ms)
           duration_error == Abs(3 * (end_ms - start_ms) - 128 * Len(candidate_chunks))
           better == /\ candidate_chunks # <<>>
                     /\ (best.chunks = <<>> \/ duration_error < best.duration_error)
       IN  BestFrom(ring, start_ms, end_ms, offset_ms + offset_step, last_offset,
                    IF better
                    THEN [chunks |-> candidate_chunks, duration_error |-> duration_error,
                          offset |-> offset_ms]
                    ELSE best)

\* variant: the range of offsets stops before the margin
find_best_exclusive_range(ring, start_ms, end_ms) ==
  BestFrom(ring, start_ms, end_ms, -timestamp_margin_ms,
           timestamp_margin_ms - 1, NoMatch)

_find_best_chunk_match(ring, start_ms, end_ms) ==
  BestFrom(ring, start_ms, end_ms, -timestamp_margin_ms, timestamp_margin_ms, NoMatch)

\* variant: a segment of exactly the minimum duration is skipped too
extract_skipping_minimum(keys, tms, ring, item_id) ==
  IF ~InDict(keys, item_id) THEN <<>>
  ELSE IF ~tms[item_id].has_stop THEN <<>>
  ELSE IF tms[item_id].end_ms - tms[item_id].start_ms <= min_duration_ms THEN <<>>
  ELSE _find_best_chunk_match(ring, tms[item_id].start_ms, tms[item_id].end_ms).chunks

\* the frames handed to the one-shot request; <<>> stands for None.  An
\* utterance has "start_ms" from its creation and "end_ms" once it has stopped.
_extract_audio_chunks(keys, tms, ring, item_id) ==
  IF ~InDict(keys, item_id) THEN <<>>
  ELSE IF ~tms[item_id].has_stop THEN <<>>
  ELSE IF tms[item_id].end_ms - tms[item_id].start_ms < min_duration_ms THEN <<>>
  ELSE _find_best_chunk_match(ring, tms[item_id].start_ms, tms[item_id].end_ms).chunks

\* add_audio_chunk with the clock at timestamp_ms after the session start
add_audio_chunk(timestamp_ms) ==
  /\ ws_state = "open" /\ running
  /\ session_start_time # NoTime
  /\ Len(audio_buffer) < MaxChunks
  /\ audio_buffer' = Append(audio_buffer, timestamp_ms)
  /\ UNCHANGED <<sessionVars, metricVars, tmVars, abVars, histVars>>
  /\ UNCHANGED <<now, audio_pc, output_lock>>
  /\ UNCHANGED <<envVars, outVars, sideVars>>

\* _fallback_transcribe up to the request: without audio it returns None and
\* the ticker delivers ""; with audio the request to the service is issued
tick_extract(t) ==
  /\ ticker[t].pc = "fallback"
  /\ LET audio_data == _extract_audio_chunks(item_speech_times, times, audio_buffer,
                                             ticker[t].item)
     IN  IF audio_data = <<>>
         THEN Delivered(t, handle_completed_transcript(Queue, item_speech_times,
                                                       ticker[t].item, NoText))
         ELSE /\ ticker' = [ticker EXCEPT ![t].pc = "request"]
              /\ UNCHANGED <<metricVars, tmVars, times, outputs, typed, outVars>>
  /\ UNCHANGED <<sessionVars, session_expirations, api_errors,
                 item_speech_times, ab_running, session_start_time,
                 expired, consecutive, close_code, opens, connects, repeats>>
  /\ UNCHANGED extraVars
  /\ UNCHANGED <<envVars, sideVars>>

\* the request returns a text, or nothing (an error, caught in
\* _fallback_transcribe, or an empty text): on_transcript_complete
tick_response(t, transcript) ==
  /\ ticker[t].pc = "request"
  /\ Delivered(t, handle_completed_transcript(Queue, item_speech_times, ticker[t].item,
                                              transcript))
  /\ UNCHANGED <<sessionVars, session_expirations, api_errors,
                 item_speech_times, ab_running, session_start_time,
                 expired, consecutive, close_code, opens, connects, repeats>>
  /\ UNCHANGED extraVars
  /\ UNCHANGED <<envVars, sideVars>>

\* one utterance with its speech interval, the frames of the ring and the
\* ticker's fallback in its two steps
NextFallback ==
  \/ Connect(1)
  \/ on_open
  \/ \E ts \in FrameTimes : add_audio_chunk(ts)
  \/ \E i \in FirstItem : item_created(i)
  \/ \E i \in FirstItem, s \in StartTimes : speech_started(i, s)
  \/ \E i \in FirstItem, e \in EndTimes : speech_stopped(i, e)
  \/ \E i \in FirstItem, x \in RawTexts : transcription_completed(i, x)
  \/ \E t \in 1..MaxOpens, i \in Ids : tick_scan(t, i)
  \/ \E t \in 1..MaxOpens : tick_extract(t)
  \/ \E t \in 1..MaxOpens, x \in RawTexts \cup {NoText} : tick_response(t, x)

SpecFallback == Init /\ [][NextFallback]_vars

\* ------------------------------------------------- a failing environment
\* the transcript file stops or starts taking appended lines (the disk fills
\* up, the directory goes away or comes back)
transcript_file_state(w) ==
  /\ w # log_writable
  /\ log_writable' = w
  /\ UNCHANGED <<sessionVars, metricVars, tmVars, abVars, histVars, extraVars, outVars, sideVars>>
  /\ UNCHANGED <<typer, filters_file>>

\* one utterance, the ticker and a transcript file that can fail
NextWorker ==
  \/ Connect(1)
  \/ on_open
  \/ \E i \in FirstItem : item_created(i)
  \/ \E i \in FirstItem : speech_started(i, 0)
  \/ \E i \in FirstItem : speech_stopped(i, 0)
  \/ \E i \in FirstItem \cup {NoId}, x \in RawTexts : transcription_completed(i, x)
  \/ Ticker
  \/ recent_ages
  \/ \E w \in BOOLEAN : transcript_file_state(w)

SpecWorker == Init /\ [][NextWorker]_vars

\* the typing method: wtype, none found at start-up, or a tool that exits
\* with an error
TypingMethods == {"wtype", "none", "failing"}

typing_method_state(m) ==
  /\ m # typer
  /\ typer' = m
  /\ UNCHANGED <<sessionVars, metricVars, tmVars, abVars, histVars, extraVars, outVars, sideVars>>
  /\ UNCHANGED <<log_writable, filters_file>>

\* two transcripts that are no duplicates of each other
InjectTexts == {<<"a">>, <<"b">>}

\* the completions of the items of one connection, in any order, with a
\* typing method that can fail
NextInject ==
  \/ Connect(1)
  \/ on_open
  \/ \E i \in IdsOf(opens) : item_created(i)
  \/ \E i \in IdsOf(opens) \cup {NoId}, x \in InjectTexts : transcription_completed(i, x)
  \/ \E m \in TypingMethods : typing_method_state(m)

SpecInject == Init /\ [][NextInject]_vars

\* the filter file is edited: a new mtime and new contents, or it is removed
FileContents ==
  {[x EXCEPT !.exists = FALSE] : x \in {ShippedFile}}
    \cup {FileOf(1, FALSE, "good", "good", "good")}
    \cup {FileOf(1, TRUE, h, f, n) : h \in Sections, f \in Sections, n \in Sections}

edit_filters(contents) ==
  /\ filters_file.mtime <= MaxEdits
  /\ filters_file' = [contents EXCEPT !.mtime = filters_file.mtime + 1]
  /\ UNCHANGED <<sessionVars, metricVars, tmVars, abVars, histVars, extraVars, outVars, sideVars>>
  /\ UNCHANGED <<log_writable, typer>>

\* partial texts arrive while the filter file is edited
NextReload ==
  \/ Connect(1)
  \/ on_open
  \/ \E d \in Deltas : transcription_delta(d)
  \/ \E c \in FileContents : edit_filters(c)

SpecReload == Init /\ [][NextReload]_vars

\* the reader's dispatch of partial texts and completions, with and without a
\* text, for the items of one connection; the transcript file can fail
NextRouter ==
  \/ Connect(1)
  \/ on_open
  \/ \E i \in IdsOf(opens) : item_created(i)
  \/ \E i \in FirstItem : speech_started(i, 0)
  \/ \E i \in FirstItem : speech_stopped(i, 0)
  \/ \E d \in Deltas : transcription_delta(d)
  \/ \E i \in IdsOf(opens) \cup {NoId}, x \in RawTexts \cup {NoText} :
        transcription_completed(i, x)
  \/ \E w \in BOOLEAN : transcript_file_state(w)

SpecRouter == Init /\ [][NextRouter]_vars

\* on_open in its steps on two connections, with the capture thread; on_close
\* is a callback of the thread that runs on_open, and comes after it
NextOpen ==
  \/ Connect(2)
  \/ open_capture
  \/ open_ticker
  \/ capture_begin
  \/ capture_chunk
  \/ clock_tick(MaxClock)
  \/ (opens > 0 /\ ticker[opens].pc # "none") /\ on_close(1006)
  \/ after_run
  \/ reset_begin
  \/ reset_end
  \/ \E t \in 1..MaxOpens : tick_exit(t)

SpecOpen == Init /\ [][NextOpen]_vars

\* ------------------------------------------------ the ticker with a clock
\* variant: the timeout is taken to have passed one reading early
timed_out_early(i) ==
  /\ Eligible(i)
  /\ now - times[i].stopped_at >= timeout_seconds_x2 - 1

\* the conditions of the for loop: not completed, stopped_at set, and
\* current_time - stopped_at >= timeout_seconds
TimedOut(i) ==
  /\ Eligible(i)
  /\ now - times[i].stopped_at >= timeout_seconds_x2

\* an iteration of the for loop that finds the conditions true, up to the
\* warning it logs
tick_examine(t, i) ==
  /\ ticker[t].pc = "loop"
  /\ session_start_time # NoTime
  /\ TimedOut(i)
  /\ ticker' = [ticker EXCEPT ![t] = [pc |-> "timed_out", item |-> i]]
  /\ UNCHANGED <<sessionVars, metricVars, tmVars, item_speech_times, times,
                 ab_running, session_start_time,
                 expired, consecutive, close_code, outputs, typed, opens, connects, repeats>>
  /\ UNCHANGED extraVars
  /\ UNCHANGED <<envVars, outVars, sideVars>>

\* metrics.record_timeout() and the call of _fallback_transcribe
tick_invoke(t) ==
  /\ ticker[t].pc = "timed_out"
  /\ ticker' = [ticker EXCEPT ![t].pc = "fallback"]
  /\ timeouts' = [timeouts EXCEPT ![ticker[t].item] = Min(@ + 1, MaxTimeouts)]
  /\ UNCHANGED <<sessionVars, metricVars, tmVars, item_speech_times, times,
                 ab_running, session_start_time,
                 expired, consecutive, close_code, outputs, typed, opens, connects, repeats>>
  /\ UNCHANGED extraVars
  /\ UNCHANGED <<envVars, outVars, sent, ab_dict, tm_dict>>

\* one utterance, the clock, and the ticker in the steps of its loop
NextTimeout ==
  \/ Connect(1)
  \/ on_open
  \/ \E i \in FirstItem : item_created(i)
  \/ \E i \in FirstItem : speech_started(i, 0)
  \/ \E i \in FirstItem : speech_stopped(i, 0)
  \/ \E i \in FirstItem, x \in RawTexts : transcription_completed(i, x)
  \/ clock_tick(MaxTime)
  \/ \E t \in 1..MaxOpens, i \in Ids : tick_examine(t, i)
  \/ \E t \in 1..MaxOpens : tick_invoke(t)
  \/ \E t \in 1..MaxOpens, x \in RawTexts \cup {NoText} : tick_deliver(t, x)

SpecTimeout == Init /\ [][NextTimeout]_vars

\* ------------------------------- the flush against the reconnect reset
\* reset_session_state and TranscriptManager.reset in their statements:
\* transcript_buffer = "" and item_order = []
reset_order ==
  /\ main_pc = "backoff"
  /\ transcript_buffer' = <<>>
  /\ item_order' = <<>>
  /\ main_pc' = "resetting"
  /\ UNCHANGED <<running, should_reconnect, reconnect_attempts, ws_state, delay,
                 metricVars, completed_transcripts, next_output_index,
                 recent_transcripts, abVars,
                 expired, consecutive, close_code, outputs, typed, opens, connects, repeats>>
  /\ UNCHANGED extraVars
  /\ UNCHANGED <<envVars, outVars, sideVars>>

\* completed_transcripts = {} and next_output_index = 0, then
\* audio_buffer.stop() up to its join
reset_cursor ==
  /\ main_pc = "resetting"
  /\ completed_transcripts' = <<>>
  /\ next_output_index' = 0
  /\ ab_running' = FALSE
  /\ main_pc' = "join"
  /\ UNCHANGED <<running, should_reconnect, reconnect_attempts, transcript_buffer,
                 ws_state, delay, metricVars, item_order, recent_transcripts,
                 item_speech_times, times, session_start_time, ticker,
                 expired, consecutive, close_code, outputs, typed, opens, connects, repeats>>
  /\ UNCHANGED extraVars
  /\ UNCHANGED <<envVars, outVars, sideVars>>

\* the ticker's call of handle_completed_transcript for an item that is not
\* completed, up to a test of the while loop in _flush_ordered_transcripts
\* that finds next_output_index < len(item_order)
flush_test(t, transcript) ==
  /\ ticker[t].pc = "fallback"
  /\ ~(InDict(item_speech_times, ticker[t].item) /\ times[ticker[t].item].completed)
  /\ next_output_index < Len(item_order)
  /\ times' = IF InDict(item_speech_times, ticker[t].item)
              THEN [times EXCEPT ![ticker[t].item].completed = TRUE]
              ELSE times
  /\ completed_transcripts' = With(completed_transcripts, ticker[t].item, transcript)
  /\ ticker' = [ticker EXCEPT ![t].pc = "indexing"]
  /\ UNCHANGED <<sessionVars, metricVars, item_order, next_output_index,
                 recent_transcripts, item_speech_times, ab_running, session_start_time,
                 expired, consecutive, close_code, outputs, typed, opens, connects, repeats>>
  /\ UNCHANGED extraVars
  /\ UNCHANGED <<envVars, outVars, sideVars>>

\* next_item_id = self.item_order[self.next_output_index] and the rest of the
\* loop; an index out of range raises IndexError, which ends the ticker thread
flush_index(t) ==
  /\ ticker[t].pc = "indexing"
  /\ IF next_output_index < Len(item_order)
     THEN Delivered(t, _flush_ordered_transcripts(Queue))
     ELSE /\ ticker' = [ticker EXCEPT ![t] = [NoTicker EXCEPT !.pc = "dead"]]
          /\ UNCHANGED <<metricVars, tmVars, times, outputs, typed, outVars>>
  /\ UNCHANGED <<sessionVars, session_expirations, api_errors,
                 item_speech_times, ab_running, session_start_time,
                 expired, consecutive, close_code, opens, connects, repeats>>
  /\ UNCHANGED extraVars
  /\ UNCHANGED <<envVars, sideVars>>

\* one utterance, a close with a reconnect, and the ticker's delivery in the
\* steps of the flush
NextRace ==
  \/ Connect(1)
  \/ on_open
  \/ \E i \in IdsOf(opens) : item_created(i)
  \/ \E i \in FirstItem : speech_started(i, 0)
  \/ \E i \in FirstItem : speech_stopped(i, 0)
  \/ \E i \in IdsOf(opens), x \in RawTexts : transcription_completed(i, x)
  \/ \E t \in 1..MaxOpens, i \in Ids : tick_scan(t, i)
  \/ \E t \in 1..MaxOpens, x \in RawTexts \cup {NoText} : flush_test(t, x)
  \/ \E t \in 1..MaxOpens : flush_index(t)
  \/ on_close(1006)
  \/ after_run
  \/ reset_order
  \/ reset_cursor
  \/ reset_end
  \/ \E t \in 1..MaxOpens : tick_exit(t)

SpecRace == Init /\ [][NextRace]_vars

\* ------------------------------------------------------------- properties
Position(i) == CHOOSE k \in 1..Len(item_order) : item_order[k] = i

OutputBefore(i, k) == \E j \in 1..(k - 1) : outputs[j].id = i

\* C1: when the transcript of a created item is output, every item created
\* before it on this connection has been output already, so created items are
\* output in creation order whatever the order of their completions.
C1_OrderedOutput ==
  \A k \in 1..Len(outputs) :
    LET i == outputs[k].id
    IN  (i # NoId /\ InList(item_order, i)) =>
          \A p \in 1..(Position(i) - 1) : OutputBefore(item_order[p], k)

\* two created items have both been output, the one created first before the
\* other, and the cursor stands behind them
C1_Witness ==
  /\ Len(item_order) >= 2
  /\ next_output_index >= 2
  /\ \E j, k \in 1..Len(outputs) :
        /\ j < k
        /\ outputs[j].id = item_order[1]
        /\ outputs[k].id = item_order[2]

\* C2: for every item id at most one transcript is output on a connection,
\* however often completions (realtime, legacy or fallback) arrive for it.
C2_AtMostOnce ==
  \A j, k \in 1..Len(outputs) :
    (j # k /\ outputs[j].id # NoId) => outputs[j].id # outputs[k].id

\* an item was output and a further completion for it has been handled since
C2_Witness ==
  \E k \in 1..Len(outputs) :
    /\ outputs[k].id # NoId
    /\ \/ outputs[k].id \in DOMAIN completed_transcripts
       \/ fallback_races > 0

AllTexts == RawTexts \cup {NoText}

Call(i, x) == handle_completed_transcript(Queue, item_speech_times, i, x)

\* C4: a call of handle_completed_transcript for an item whose completed flag
\* is set outputs nothing and leaves item_order, completed_transcripts,
\* next_output_index and the recent window as they are; it only adds one to
\* fallback_races.  And every step that counts a race changes nothing else
\* of the queue.
C4_Call ==
  \A i \in Ids, x \in AllTexts :
    (InDict(item_speech_times, i) /\ times[i].completed) =>
      Call(i, x) = [Queue EXCEPT !.races = fallback_races + 1]

C4_Step ==
  fallback_races' # fallback_races =>
    /\ fallback_races' = fallback_races + 1
    /\ UNCHANGED <<tmVars, times, outputs, typed>>

C4_RaceDiscarded == []C4_Call /\ [][C4_Step]_vars

\* a race was counted for an item that is completed and was output
C4_Witness ==
  /\ fallback_races > 0
  /\ \E i \in item_speech_times :
        /\ times[i].completed
        /\ \E k \in 1..Len(outputs) : outputs[k].id = i /\ outputs[k].emitted

\* C5 as stated: a completion for an id that had no creation event (and no
\* earlier completion) is output within the call.
C5_UncreatedOutputAtOnce ==
  \A i \in IdsOf(opens), x \in RawTexts :
    (Inbound /\ ~InList(item_order, i) /\ ~Settled(i)) =>
      LET r == Call(i, x)
      IN  /\ Len(r.out) = Len(outputs) + 1
          /\ r.out[Len(r.out)].id = i

\* C5 amended: a completion without item_id is output within the call,
\* whatever the cursor waits for, and leaves the queue as it is; a completion
\* with an id that is not in item_order is stored and not output; so every
\* output that carries an id is of a created item.
C5_OnlyIdlessBypasses ==
  /\ \A x \in RawTexts :
        LET r == Call(NoId, x)
        IN  Inbound =>
            /\ Len(r.out) = Len(outputs) + 1
            /\ SubSeq(r.out, 1, Len(outputs)) = outputs
            /\ r.out[Len(r.out)].id = NoId
            /\ r.out[Len(r.out)].emitted =
                  ~_is_fuzzy_duplicate(recent_transcripts, filter_text(x))
            /\ r.order = item_order /\ r.idx = next_output_index
            /\ r.done = completed_transcripts
  /\ \A i \in IdsOf(opens), x \in AllTexts :
        (/\ Inbound
         /\ ~InList(item_order, i)
         /\ ~(InDict(item_speech_times, i) /\ times[i].completed)) =>
          LET r == Call(i, x)
          IN  /\ \A k \in 1..Len(r.out) : r.out[k].id # i
              /\ r.order = item_order
              /\ i \in DOMAIN r.done /\ r.done[i] = x
  /\ \A k \in 1..Len(outputs) :
        outputs[k].id # NoId => InList(item_order, outputs[k].id)

\* an id-less completion was output while the cursor waits for a created item,
\* and the transcript of an id that was never created is held
C5_Witness ==
  /\ \E k \in 1..Len(outputs) : outputs[k].id = NoId /\ outputs[k].emitted
  /\ next_output_index < Len(item_order)
  /\ \E i \in DOMAIN completed_transcripts : ~InList(item_order, i)
\* the cursor waits for item i
AtCursor(i) ==
  next_output_index < Len(item_order) /\ item_order[next_output_index + 1] = i

\* C6: when the ticker is in the fallback of a timed-out item and the fallback
\* yields no text, the call it makes with the empty string marks the item
\* completed, shows nothing for it, leaves the recent window as it is (unless
\* transcripts of later items are released), and the cursor does not wait
\* for the item afterwards: it moves on, up to the next item that has no
\* stored transcript.
C6_GiveUp ==
  \A t \in 1..MaxOpens :
    ticker[t].pc = "fallback" =>
      LET i == ticker[t].item
          r == Call(i, NoText)
          added == (Len(outputs) + 1)..Len(r.out)
      IN  /\ InDict(item_speech_times, i)
          /\ r.times[i].completed
          /\ \A k \in added : r.out[k].id = i => ~r.out[k].emitted
          /\ (\A k \in added : ~r.out[k].emitted) => r.recent = recent_transcripts
          /\ ~(/\ r.idx < Len(r.order)
                /\ r.order[r.idx + 1] = i
                /\ i \notin DOMAIN r.done)
          /\ (AtCursor(i) /\ ~times[i].completed) =>
                /\ r.idx > next_output_index
                /\ r.out[Len(outputs) + 1] = [id |-> i, emitted |-> FALSE]
                /\ \/ r.idx = Len(r.order)
                   \/ r.order[r.idx + 1] \notin DOMAIN r.done

\* the first created item was given up (nothing shown, nothing in the window
\* before it) and the second, completed earlier, was shown right after it
C6_Witness ==
  /\ Len(item_order) >= 2
  /\ outputs = << [id |-> item_order[1], emitted |-> FALSE],
                  [id |-> item_order[2], emitted |-> TRUE] >>
  /\ Len(recent_transcripts) = 1
  /\ times[item_order[1]].completed

HasStop(i) ==
  i \in item_speech_times /\ times[i].has_stop /\ ~times[i].completed

\* the created items from the cursor up to item i
Pending(i) == { item_order[p] : p \in (next_output_index + 1)..Position(i) }

\* item i is created, not passed, stopped and not completed, and every
\* created item the cursor has to pass before it has a recorded stop and no
\* completion, or a stored transcript
StoppedUpTo(i) ==
  /\ InList(item_order, i)
  /\ Position(i) > next_output_index
  /\ HasStop(i)
  /\ \A j \in Pending(i) : HasStop(j) \/ j \in DOMAIN completed_transcripts

\* a new speech_started discarded the recorded stop of item i, or that of a
\* pending item that has no stored transcript
Restarted(i) ==
  /\ InList(item_order, i)
  /\ \/ ~times[i].has_stop /\ ~times[i].completed
     \/ \E j \in Pending(i) :
          ~times[j].has_stop /\ j \notin DOMAIN completed_transcripts

Closes == main_pc = "run_forever" /\ main_pc' = "after_run"

\* C7: a close with a code other than 1000 (1006, a missing one, any other)
\* asks for a reconnect, and the run loop then goes to the backoff; a close
\* with code 1000 on a connection that had no session_expired error ends the
\* session: running is false, the loop is left, and once running is false no
\* connection is attempted any more.
C7_Step ==
  /\ Closes =>
        /\ close_code' # 1000 => should_reconnect' /\ running' = running
        /\ (close_code' = 1000 /\ ~expired) => ~should_reconnect' /\ ~running'
  /\ main_pc = "after_run" =>
        /\ (close_code # 1000 /\ running) => main_pc' = "backoff"
        /\ (close_code = 1000 /\ ~expired) => main_pc' = "done" /\ ~running'
  /\ ~running => ~running' /\ connects' = connects

C7_CloseCodes == [][C7_Step]_vars

\* the session reconnected after a close and then ended with a close 1000
C7_Witness ==
  /\ main_pc = "done"
  /\ close_code = 1000 /\ ~expired
  /\ ~running
  /\ connects >= 2

\* C8: the socket is closed from within on_message only by a session_expired
\* error, which adds one to session_expirations and asks for a reconnect; the
\* close that follows, whatever its code, keeps the session running and the
\* loop goes to the backoff.  An error with another code adds one to
\* api_errors and changes nothing else.
C8_Step ==
  /\ (ws_state = "open" /\ ws_state' = "closing") =>
        /\ session_expirations' = session_expirations + 1
        /\ should_reconnect' /\ expired'
        /\ api_errors' = api_errors
  /\ session_expirations' # session_expirations =>
        ws_state = "open" /\ ws_state' = "closing"
  /\ api_errors' # api_errors =>
        /\ api_errors' = api_errors + 1
        /\ UNCHANGED <<sessionVars, session_expirations, fallback_races, duplicates_filtered, tmVars, abVars,
                       expired, consecutive, close_code, outputs, typed, opens, connects>>
  /\ (Closes /\ expired) => should_reconnect' /\ running' = running
  /\ (main_pc = "after_run" /\ expired /\ running) => main_pc' = "backoff"

C8_SessionExpired == [][C8_Step]_vars

\* after another error that was only counted, a session_expired error closed
\* the socket with code 1000 and the loop is about to reconnect
C8_Witness ==
  /\ main_pc = "backoff"
  /\ expired /\ close_code = 1000
  /\ session_expirations = 1
  /\ api_errors = 1
  /\ running

\* C9: the delay slept before the n-th consecutive reconnect attempt since
\* the last connection that opened is min(1 * 2^(n-1), 30).
C9_DelayDoubles ==
  main_pc = "backoff" => delay = Min(reconnect_delay * Pow2(consecutive - 1), max_delay)

\* C10: once more than max_reconnect_attempts consecutive reconnect attempts
\* were made without a connection that opened, the session is stopped.
C10_AttemptsCapped ==
  consecutive > max_reconnect_attempts => ~running

\* C11: the reconnect counter goes back to zero only in the step in which
\* the socket opens; a reconnect attempt that does not open leaves it at its
\* incremented value.
C11_ResetOnlyOnOpen ==
  [][(reconnect_attempts > 0 /\ reconnect_attempts' = 0) =>
       (ws_state = "connecting" /\ ws_state' = "open")]_vars

\* the two steps of reset_session_state
ResetStarts == main_pc = "backoff" /\ main_pc' = "join"
ResetCompletes == main_pc = "join" /\ main_pc' = "loop"

\* C12: when reset_session_state completes, item_order, completed_transcripts,
\* the audio ring and the utterance map are empty, next_output_index is 0 and
\* the partial transcript buffer is empty
C12_ResetEmpties ==
  [][ResetCompletes =>
       /\ item_order' = <<>>
       /\ completed_transcripts' = <<>>
       /\ next_output_index' = 0
       /\ audio_buffer' = <<>>
       /\ item_speech_times' = {}
       /\ transcript_buffer' = <<>>]_vars

\* C13: the steps of reset_session_state leave the window of recent
\* transcripts, the metrics counters and the lines of the transcript log as
\* they are; and the first item of the second connection, output while an entry
\* of the window is at most 7 s old, is discarded as its duplicate
C13_FirstOfSecond ==
  /\ Len(outputs') = Len(outputs) + 1
  /\ outputs'[Len(outputs')].id = <<2, 1>>

ReturnsAfterReset(t) ==
  /\ ticker[t].pc = "fallback"
  /\ ~InDict(item_speech_times, ticker[t].item)
  /\ ticker'[t].pc # "fallback"

\* C14: the result of a fallback request that returns after the reset is
\* dropped: nothing is logged or typed, and the queue and the utterance state
\* of the new session stay as they are
C14_StaleResultDropped ==
  [][(\E t \in 1..MaxOpens : ReturnsAfterReset(t)) =>
       UNCHANGED <<tmVars, item_speech_times, times, outputs, typed>>]_vars

\* a delta event was handled: the partial display buffer grew
DeltaStep == Len(transcript_buffer') > Len(transcript_buffer)

\* C17: a delta event only displays text: it types nothing, writes no line of
\* the transcript file and leaves the ordered queue, the window of recent
\* transcripts and the utterance state as they are
C17_DeltaDisplayOnly ==
  [][DeltaStep => UNCHANGED <<typed, outputs, tmVars, item_speech_times, times,
                              metricVars>>]_vars

\* a delta with visible text was handled and nothing was typed or logged
C17_Witness ==
  /\ filter_text(transcript_buffer) # <<>>
  /\ typed = <<>>
  /\ outputs = <<>>

RECURSIVE Concat(_)
Concat(chunks) == IF chunks = <<>> THEN <<>> ELSE Head(chunks) \o Concat(Tail(chunks))

Range(f) == {f[k] : k \in DOMAIN f}

\* what one call of the typer may inject for raw transcript x
TypedFor(x) == filter_text(x) \o <<" ">>

Typable(x) ==
  /\ filter_text(x) # <<>>
  /\ filter_text(x)[Len(filter_text(x))] # " "

C18_Call ==
  \A i \in Ids \cup {NoId}, x \in Texts :
     LET r == Call(i, x)
         raws == {x} \cup Range(completed_transcripts)
     IN  /\ Len(r.typed) >= Len(typed)
         /\ SubSeq(r.typed, 1, Len(typed)) = typed
         /\ \A k \in (Len(typed) + 1)..Len(r.typed) :
               /\ r.typed[k] # <<>>
               /\ \E y \in raws : Typable(y) /\ Concat(r.typed[k]) = TypedFor(y)
         /\ filter_text(x) = <<>> => _output_transcript(Queue, i, x).typed = typed

C18_Step ==
  typed' # typed =>
    \E i \in Ids \cup {NoId}, x \in Texts : typed' = Call(i, x).typed

HasRecentTwin(f) ==
  \E k \in 1..Len(recent_transcripts) :
     /\ k > Len(recent_transcripts) - 7
     /\ ~recent_transcripts[k].old
     /\ RatioAtLeast(f, recent_transcripts[k].text)

\* C19: a transcript whose filtered text is not empty is discarded (no line
\* in the log, nothing typed, window as before, duplicates_filtered one more)
\* if and only if one of the 7 most recently emitted texts is at most 7 s old
\* and has ratio >= 0.85 with it; otherwise it is logged, typed and appended
\* to the window
C19_Call ==
  \A k \in 1..Len(DedupTexts) :
     LET f == filter_text(DedupTexts[k])
         r == _output_transcript(Queue, NoId, DedupTexts[k])
     IN  /\ f # <<>>
         /\ IF HasRecentTwin(f)
            THEN /\ r.out = Append(outputs, [id |-> NoId, emitted |-> FALSE])
                 /\ r.typed = typed
                 /\ r.recent = recent_transcripts
                 /\ r.dups = duplicates_filtered + 1
            ELSE /\ r.out = Append(outputs, [id |-> NoId, emitted |-> TRUE])
                 /\ Len(r.typed) = Len(typed) + 1
                 /\ Concat(r.typed[Len(r.typed)]) = TypedFor(DedupTexts[k])
                 /\ r.recent # <<>>
                 /\ r.recent[Len(r.recent)] = [old |-> FALSE, text |-> f]
                 /\ r.dups = duplicates_filtered

C19_Step ==
  Len(outputs') > Len(outputs) =>
    \E k \in 1..Len(DedupTexts) :
       LET r == _output_transcript(Queue, NoId, DedupTexts[k])
       IN  /\ outputs' = r.out /\ typed' = r.typed
           /\ recent_transcripts' = r.recent /\ duplicates_filtered' = r.dups

C19_FuzzyDuplicate == []C19_Call /\ [][C19_Step]_vars

\* the second of the two similar transcripts was discarded while the first
\* was in the window, and later typed when the first had aged
C19_Witness ==
  /\ duplicates_filtered = 1
  /\ Len(outputs) = 3
  /\ ~outputs[2].emitted /\ outputs[3].emitted
  /\ Len(recent_transcripts) = 2
  /\ recent_transcripts[1] = [old |-> TRUE, text |-> DedupTexts[1]]
  /\ recent_transcripts[2] = [old |-> FALSE, text |-> DedupTexts[2]]

\* a step changes the ordered queue or the completed flag of an utterance
QueueMutated ==
  \/ item_order' # item_order
  \/ completed_transcripts' # completed_transcripts
  \/ next_output_index' # next_output_index
  \/ \E i \in Ids : times'[i].completed # times[i].completed

\* C15: every step that changes item_order, completed_transcripts,
\* next_output_index or a completed flag is taken while the output lock is held
C15_MutationUnderLock ==
  [][QueueMutated => output_lock # Unlocked]_vars

\* C16: the typer is never invoked while the output lock is held
C16_NoTypingUnderLock ==
  [][typed' # typed => output_lock = Unlocked]_vars

\* C20: the session-relative timestamps of the frames in the audio ring are
\* non-decreasing in the order of the appends
C20_TimestampsNonDecreasing ==
  \A k \in 1..(Len(audio_buffer) - 1) : audio_buffer[k] <= audio_buffer[k + 1]

\* C28: the completed flag of an utterance, once true, stays true until the
\* session state is reset, whatever events arrive for the item
C28_CompletedStays ==
  [][\A i \in Ids :
       (InDict(item_speech_times, i) /\ times[i].completed /\ ~ResetCompletes) =>
         (InDict(item_speech_times', i) /\ times'[i].completed)]_vars

\* the length of the run of items from the cursor on that have a transcript
\* among the ids D
IsRun(n, D) ==
  /\ next_output_index + n <= Len(item_order)
  /\ \A k \in 1..n : item_order[next_output_index + k] \in D
  /\ \/ next_output_index + n = Len(item_order)
     \/ item_order[next_output_index + n + 1] \notin D

\* C30: a call of handle_completed_transcript that stores a transcript for a
\* created item outputs, in the order of item_order, exactly the longest run
\* of items from next_output_index on that have a stored transcript, removes
\* them from completed_transcripts and leaves next_output_index behind the run
C30_FlushMaximalRun ==
  \A i \in Ids, x \in AllTexts :
     (InList(item_order, i) /\ ~(InDict(item_speech_times, i) /\ times[i].completed)) =>
       LET r == Call(i, x)
           D == DOMAIN completed_transcripts \cup {i}
       IN  \E n \in 0..Len(item_order) :
              /\ IsRun(n, D)
              /\ r.idx = next_output_index + n
              /\ r.order = item_order
              /\ Len(r.out) = Len(outputs) + n
              /\ SubSeq(r.out, 1, Len(outputs)) = outputs
              /\ \A k \in 1..n :
                    r.out[Len(outputs) + k].id = item_order[next_output_index + k]
              /\ DOMAIN r.done = D \ {item_order[next_output_index + k] : k \in 1..n}
              /\ \A j \in DOMAIN r.done : r.done[j] = IF j = i THEN x ELSE completed_transcripts[j]

\* the second item has a stored transcript and waits for the first; a
\* completion of the first outputs both
C30_Witness ==
  /\ item_order = <<<<1, 1>>, <<1, 2>>>>
  /\ next_output_index = 0
  /\ DOMAIN completed_transcripts = {<<1, 2>>}
  /\ \E x \in RawTexts :
        /\ Call(<<1, 1>>, x).idx = 2
        /\ Len(Call(<<1, 1>>, x).out) = Len(outputs) + 2

Distinct(chunk, p) == Cardinality({chunk[j] : j \in 1..p})

\* C27: every string the wtype splitter hands on has fewer than 14 distinct
\* characters, or its 14th distinct character is alphanumeric
C27_FourteenthAlnum ==
  \A k \in 1..Len(typed) : \A c \in 1..Len(typed[k]) :
     \A p \in 1..Len(typed[k][c]) :
        (Distinct(typed[k][c], p) = 14 /\ Distinct(typed[k][c], p - 1) = 13) =>
          isalnum(typed[k][c][p])

\* C26: filtering a filtered text changes nothing
C26_FilterIdempotent ==
  filter_text(filter_text(transcript_buffer)) = filter_text(transcript_buffer)


\* C21: the timeout path issues the one-shot request for an item only if its
\* speech start and speech end are both recorded and end - start >= 300 ms
\* (an interval of 299 ms never produces a request), and whenever that holds
\* and the ring has a frame in [start - 200, end + 200] the fallback does
\* issue it (an interval of 300 ms with matching audio does).
Requestable(i) ==
  /\ InDict(item_speech_times, i)
  /\ times[i].has_stop
  /\ times[i].end_ms - times[i].start_ms >= 300

MatchingAudio(i) ==
  \E k \in 1..Len(audio_buffer) :
     /\ times[i].start_ms - 200 <= audio_buffer[k]
     /\ audio_buffer[k] <= times[i].end_ms + 200

C21_RequestIffLongEnough ==
  [][\A t \in 1..MaxOpens :
       (ticker[t].pc = "fallback" /\ ticker'[t].pc # "fallback") =>
          (ticker'[t].pc = "request"
             <=> (Requestable(ticker[t].item) /\ MatchingAudio(ticker[t].item)))]_vars

C21_Witness ==
  \E t \in 1..MaxOpens :
     /\ ticker[t].pc = "request"
     /\ times[ticker[t].item].end_ms - times[ticker[t].item].start_ms = 300
     /\ MatchingAudio(ticker[t].item)

\* C22 as stated: for every start, end and ring contents the best-offset
\* search returns a non-empty frame list whenever the ring holds a frame with
\* timestamp in [start - 200, end + 200].
SearchFinds(i) ==
  _find_best_chunk_match(audio_buffer, times[i].start_ms, times[i].end_ms).chunks # <<>>

Stopped(i) == InDict(item_speech_times, i) /\ times[i].has_stop

C22_SearchNeverEmpty ==
  \A i \in Ids : (Stopped(i) /\ MatchingAudio(i)) => SearchFinds(i)

\* C22 as amended: the same for every interval with end - start >= 19 ms, the
\* length at which the 21 windows leave no gap between them.
C22_SearchNeverEmptyFrom19 ==
  \A i \in Ids :
     (Stopped(i) /\ times[i].end_ms - times[i].start_ms >= 19 /\ MatchingAudio(i))
        => SearchFinds(i)

C22_Witness ==
  \E i \in Ids :
     /\ Stopped(i) /\ times[i].end_ms - times[i].start_ms = 19
     /\ audio_buffer = <<19>>
     /\ SearchFinds(i)


\* C23: an exception raised inside a worker is caught and logged and does not
\* end the worker: a ticker thread that is running a fallback or delivering
\* its result does not end there, it goes back to its loop.
C23_TickerSurvives ==
  [][\A t \in 1..MaxOpens : ticker[t].pc = "fallback" => ticker'[t].pc # "dead"]_vars

\* C24: every emitted final transcript is one line of the transcript file
\* before its injection is attempted (the k-th attempt finds k lines, and
\* there are as many attempts as lines), and a failing injection changes
\* nothing in the queue: the completion leaves the order, the stored
\* transcripts, the cursor, the file lines and the recent texts as a working
\* injection does, and raises nothing.
LinesBeforeInjection ==
  /\ \A k \in 1..Len(injections) : injections[k].lines = k
  /\ FileLines(outputs) = Len(injections)

FailureNotPropagated ==
  \A i \in Ids \cup {NoId}, x \in InjectTexts \cup {NoText} :
     LET r == handle_completed_transcript(Queue, item_speech_times, i, x)
         w == handle_completed_transcript([Queue EXCEPT !.typer = "wtype"],
                                          item_speech_times, i, x)
     IN  /\ ~r.raised
         /\ r.order = w.order /\ r.done = w.done /\ r.idx = w.idx
         /\ r.out = w.out /\ r.recent = w.recent /\ r.times = w.times
         /\ Len(r.injections) = Len(w.injections)

FileBad(file) ==
  \/ ~file.loads
  \/ \E x \in {file.hallucinations, file.fillers, file.non_ascii} : x # "good"

Lists(f) == <<f.hallucination, f.filler, f.non_ascii>>

C25_FailedReloadKeepsRules ==
  [][FileBad(filters_file) => Lists(filters') = Lists(filters)]_vars


\* C29: while running is true and the socket is open the capture goes on: an
\* error in the capture loop does not leave the session running with an open
\* connection and a capture thread that has ended.
C29_CaptureGoesOn ==
  ~(running /\ main_pc = "run_forever" /\ ws_state = "open" /\ audio_pc = "dead")


\* C40: a failure while an item is output inside the flush does not leave the
\* queue stuck: in no reachable state is the item at next_output_index marked
\* completed, without a stored transcript, and never output.
StuckAtCursor ==
  /\ next_output_index < Len(item_order)
  /\ LET i == item_order[next_output_index + 1]
     IN  /\ InDict(item_speech_times, i) /\ times[i].completed
         /\ i \notin DOMAIN completed_transcripts
         /\ ~\E k \in 1..Len(outputs) : outputs[k].id = i

C40_QueueNeverStuck == ~StuckAtCursor


\* C39 as stated: between the calls of handle_completed_transcript the item
\* at next_output_index, if any, has no stored transcript.
AtCursorStored ==
  /\ next_output_index < Len(item_order)
  /\ item_order[next_output_index + 1] \in DOMAIN completed_transcripts

C39_CursorItemNotStored == ~AtCursorStored

\* C39 as amended: the item at next_output_index comes to have a stored
\* transcript only by its creation event, when its completion arrived before
\* it and it is appended at the cursor; no completion leaves a stored
\* transcript at the cursor.
CreatedAtCursor ==
  /\ Len(item_order') = Len(item_order) + 1
  /\ next_output_index = Len(item_order)
  /\ next_output_index' = next_output_index
  /\ item_order'[Len(item_order')] \in DOMAIN completed_transcripts

C39_StoredAtCursorOnlyByCreation ==
  [][(~AtCursorStored /\ AtCursorStored') => CreatedAtCursor]_vars

C39_Witness ==
  /\ Len(item_order) = 2
  /\ next_output_index = 2
  /\ DOMAIN completed_transcripts = {}
  /\ \E k \in 1..Len(outputs) : outputs[k].id = item_order[2]


\* C34: item_order never holds the same id twice, a creation event for a
\* recorded id leaves item_order as it is, and a step that adds an id keeps
\* the ids before it in place and leaves next_output_index unchanged.
NoDuplicates(order) ==
  \A j, k \in 1..Len(order) : order[j] = order[k] => j = k

C34_CreatedOnce ==
  [][/\ NoDuplicates(item_order')
     /\ \A i \in Ids : InList(item_order, i) =>
           track_item_creation(item_order, i) = item_order
     /\ Len(item_order') >= Len(item_order)
     /\ SubSeq(item_order', 1, Len(item_order)) = item_order
     /\ Len(item_order') > Len(item_order) => next_output_index' = next_output_index]_vars

\* a creation event was sent again: nothing else has spent a redundant event
C34_Witness ==
  /\ Len(item_order) = 2
  /\ repeats = 1
  /\ item_speech_times = {} /\ outputs = <<>> /\ DOMAIN completed_transcripts = {}


\* the ticker thread started by the t-th opening has not ended
TickerAlive(t) == ticker[t].pc \notin {"none", "dead"}

\* C36: at most one timeout-ticker thread is alive at any time, also when the
\* ticker of the previous connection is inside a fallback request that
\* outlasts the two seconds of the join in stop().
C36_OneTicker ==
  \A s, t \in 1..MaxOpens : (TickerAlive(s) /\ TickerAlive(t)) => s = t


RouterCall(i, x) == on_completed(Queue, transcript_buffer, item_speech_times, i, x)

\* C35 as stated: a completion event with any transcript, the empty one
\* included, hands (item_id, transcript) to handle_completed_transcript and
\* clears the partial buffer.
C35_EveryCompletionCallsAndClears ==
  Inbound =>
    \A i \in Ids \cup {NoId}, x \in AllTexts :
      /\ RouterCall(i, x).q = handle_completed_transcript(Queue, item_speech_times, i, x)
      /\ RouterCall(i, x).buffer = <<>>

RouterCalls ==
  Inbound =>
    \A i \in Ids \cup {NoId}, x \in AllTexts :
      LET h == handle_completed_transcript(Queue, item_speech_times, i, x)
      IN  IF x # NoText
          THEN /\ RouterCall(i, x).q = h
               /\ RouterCall(i, x).buffer = IF h.raised THEN transcript_buffer ELSE <<>>
          ELSE /\ RouterCall(i, x).q = Queue
               /\ RouterCall(i, x).buffer = transcript_buffer

RouterStep == Len(outputs') > Len(outputs) => transcript_buffer' = <<>>

\* C35, amended: a completion event with a transcript that is not empty hands
\* (item_id, transcript) to handle_completed_transcript and, when that call
\* returns, clears the partial buffer; an event with an empty transcript makes
\* no call and leaves the queue and the partial buffer as they are.  Every
\* step that writes a line of the transcript file clears the buffer.
C35_TextCompletionCallsAndClears == []RouterCalls /\ [][RouterStep]_vars

\* a completion has been output and cleared the partial buffer, partial text
\* has arrived since, and an item is waiting: the next completion, with or
\* without a text, finds a buffer to clear and a queue to change
C35_Witness ==
  /\ Inbound
  /\ Len(outputs) = 1
  /\ Len(transcript_buffer) = 2
  /\ Len(item_order) = 2
  /\ next_output_index = 1


\* C38: while a connection is open, which is when the reader dispatches an
\* inbound event and when a completion is handled on it, the dict the
\* transcript manager refers to as item_speech_times is the dict of the audio
\* buffer: after construction and after every reconnect reset.
C38_SharedDict == ws_state = "open" => tm_dict = ab_dict

\* the second connection is open after a reset that made a new dict, and an
\* utterance of that connection is tracked in it
C38_Witness ==
  /\ Inbound
  /\ opens = 2
  /\ ab_dict > 0
  /\ \E i \in IdsOf(2) : InDict(item_speech_times, i) /\ times[i].has_stop


UpdateSent == \E k \in 1..Len(sent) : sent[k] = "transcription_session.update"

\* C33: on every connection the transcription_session.update message is sent
\* before any input_audio_buffer.append of that connection, and before the
\* capture thread and the timeout ticker of that connection are started.
C33_UpdateFirst ==
  /\ \A k \in 1..Len(sent) :
        sent[k] = "input_audio_buffer.append" =>
          \E j \in 1..(k - 1) : sent[j] = "transcription_session.update"
  /\ (ws_state = "open" /\ audio_pc \in {"opening", "loop"}) => UpdateSent
  /\ (ws_state = "open" /\ ticker[opens].pc # "none") => UpdateSent

\* on the second connection the update was sent, then a chunk, and both
\* threads of that connection run
C33_Witness ==
  /\ opens = 2 /\ ws_state = "open"
  /\ Len(sent) >= 2
  /\ sent[1] = "transcription_session.update"
  /\ sent[2] = "input_audio_buffer.append"
  /\ audio_pc = "loop"
  /\ ticker[2].pc = "loop"


Invoked(t) == ticker[t].pc # "fallback" /\ ticker'[t].pc = "fallback"

Examined(t) == ticker[t].pc = "loop" /\ ticker'[t].pc = "timed_out"

Due(i) ==
  /\ InDict(item_speech_times, i)
  /\ times[i].has_stop
  /\ ~times[i].completed
  /\ now - times[i].stopped_at >= timeout_seconds_x2

\* C31 as stated: when the ticker records a timeout and invokes the fallback
\* for an item, the item has its stopped_at, its completed flag is false and
\* 2.5 s have passed since stopped_at; the fallback is never invoked for an
\* item the realtime path has completed.
C31_InvokedOnlyWhenDue ==
  [][\A t \in 1..MaxOpens : Invoked(t) => Due(ticker'[t].item)]_vars

\* C31, amended: the ticker records a timeout and invokes the fallback for an
\* item only after its examination of the item found stopped_at set, the
\* completed flag false and 2.5 s passed since stopped_at; it records one
\* timeout for that item as it invokes the fallback.
C31_InvokedOnlyAfterExaminedDue ==
  [][\A t \in 1..MaxOpens :
        /\ Examined(t) => Due(ticker'[t].item)
        /\ Invoked(t) =>
              /\ ticker[t].pc = "timed_out"
              /\ ticker'[t].item = ticker[t].item
              /\ timeouts'[ticker[t].item] = Min(timeouts[ticker[t].item] + 1, MaxTimeouts)
        /\ (\E i \in Ids : timeouts'[i] # timeouts[i]) => \E u \in 1..MaxOpens : Invoked(u)]_vars

\* the fallback runs for an utterance that stopped exactly 2.5 s before
C31_Witness ==
  \E t \in 1..MaxOpens :
    /\ ticker[t].pc = "fallback"
    /\ timeouts[ticker[t].item] = 1
    /\ ~times[ticker[t].item].completed
    /\ now - times[ticker[t].item].stopped_at = timeout_seconds_x2


\* C32: for each timed-out utterance one timeout is recorded and at most one
\* one-shot request is made in the whole session: an item the ticker has
\* handled on one tick is not handled again on a later tick.
C32_OneTimeoutEach == \A i \in Ids : timeouts[i] <= 1


\* C37: whenever the flush evaluates item_order[next_output_index], the index
\* is in range, 0 <= next_output_index < len(item_order), also when the
\* reconnect reset interleaves with a flush that runs on the timeout ticker.
C37_IndexInRange ==
  \A t \in 1..MaxOpens :
    ticker[t].pc = "indexing" => (0 <= next_output_index /\ next_output_index < Len(item_order))

====
